---- MODULE Spec2Model ----
(***************************************************************************)
(* A model of the Tomasulo cycle engine (services/tomasulo.ts, the variant *)
(* with INTEGER stations, issue-time address resolution, memory            *)
(* disambiguation and dynamic loop re-entry).  One step of the model is    *)
(* one call of nextCycle.                                                  *)
(*                                                                         *)
(* Representation.  A nullable field is a sequence: <<>> is null and <<x>> *)
(* is the value x.  A number (register value, operand, result, address,    *)
(* memory word) is an exact rational [n |-> numerator, d |-> denominator], *)
(* d > 0, in lowest terms, so that "/" is a division and not a truncation. *)
(***************************************************************************)
EXTENDS Integers, Sequences, FiniteSets, TLC

VARIABLES
  cycle,                \* SimulationState.cycle
  pc,                   \* SimulationState.pc
  instructions,         \* SimulationState.instructions (dynamic instruction list)
  reservationStations,  \* SimulationState.reservationStations
  registers,            \* SimulationState.registers
  memory,               \* SimulationState.memory
  cache,                \* SimulationState.cache
  cdb,                  \* SimulationState.cdb
  log,                  \* SimulationState.log
  isFinished,           \* SimulationState.isFinished
  branchStall,          \* SimulationState.branchStall
  config,               \* the SystemConfig handed to every step
  labels,               \* the label map handed to every step
  producers,            \* history: instruction id -> ids of the producers it was issued waiting on
  code,                 \* the source program the run was initialized from
  initialRegisters,     \* the register values the run was initialized from
  prior                 \* the state object handed to the last call that advanced, as it reads after the call

vars == <<cycle, pc, instructions, reservationStations, registers, memory,
          cache, cdb, log, isFinished, branchStall, config, labels, producers,
          code, initialRegisters, prior>>

-----------------------------------------------------------------------------
(* Nullable fields *)

Null == <<>>

Some(x) == <<x>>

(* Rational numbers *)

Abs(x) == IF x < 0 THEN -x ELSE x

RECURSIVE GCD(_, _)
GCD(a, b) == IF b = 0 THEN a ELSE GCD(b, a % b)

\* A JavaScript number is kept as a fraction n/d in lowest terms with d >= 0:
\* d = 0 holds the non-finite numbers, NaN as 0/0 and +-Infinity as +-1/0
NaN == [n |-> 0, d |-> 0]

Sign(x) == IF x < 0 THEN -1 ELSE IF x > 0 THEN 1 ELSE 0

\* numerators and denominators the model keeps exactly
MaxMagnitude == 10000

Lowest(n, d) ==
  LET g == GCD(Abs(n), Abs(d))
  IN  [n |-> n \div g, d |-> d \div g]

\* numbers have finite precision: a fraction beyond MaxMagnitude is rounded
\* towards zero, overflowing to +-Infinity and underflowing to 0
Round(x) ==
  IF Abs(x.n) <= MaxMagnitude /\ x.d <= MaxMagnitude THEN x
  ELSE LET big == IF Abs(x.n) > x.d THEN Abs(x.n) ELSE x.d
           k   == (big \div MaxMagnitude) + 1
           n2  == Sign(x.n) * (Abs(x.n) \div k)
           d2  == x.d \div k
       IN  IF d2 = 0 THEN [n |-> Sign(x.n), d |-> 0]
           ELSE IF n2 = 0 THEN [n |-> 0, d |-> 1]
           ELSE Lowest(n2, d2)

Norm(n, d) ==
  IF d = 0 THEN [n |-> Sign(n), d |-> 0]
  ELSE IF d < 0 THEN Round(Lowest(-n, -d))
  ELSE Round(Lowest(n, d))

Num(i) == [n |-> i, d |-> 1]

Zero == Num(0)

Neg(x) == [n |-> -x.n, d |-> x.d]

Recip(x) == IF x.n < 0 THEN [n |-> -x.d, d |-> -x.n] ELSE [n |-> x.d, d |-> x.n]

Plus(x, y) ==
  IF x.d = 0 /\ y.d = 0 THEN (IF x = y THEN x ELSE NaN)
  ELSE Norm(x.n * y.d + y.n * x.d, x.d * y.d)

Minus(x, y) == Plus(x, Neg(y))

Times(x, y) == Norm(x.n * y.n, x.d * y.d)

Divide(x, y) == Times(x, Recip(y))

\* `v || 0` on a nullable number: null, NaN and 0 all give 0
OrZero(o) == IF o = Null \/ o = Some(NaN) THEN Zero ELSE o[1]

-----------------------------------------------------------------------------
(* Helpers of the engine *)

LoadOps == {"L.D", "LW", "LD", "L.S"}

StoreOps == {"S.D", "SW", "SD", "S.S"}

FpAddOps == {"ADD.D", "ADD.S"}

FpSubOps == {"SUB.D", "SUB.S"}

MultOps == {"MUL", "MUL.D", "MUL.S"}

DivOps == {"DIV", "DIV.D", "DIV.S"}

IntegerOps == {"ADD", "ADDI", "DADDI", "DADD", "SUB", "SUBI", "DSUBI", "DSUB"}

BranchOps == {"BNE", "BEQ", "BNEZ", "BEQZ"}

getOpType(op) ==
  IF op \in LoadOps THEN "LOAD"
  ELSE IF op \in StoreOps THEN "STORE"
  ELSE IF op \in FpAddOps THEN "ADD"
  ELSE IF op \in FpSubOps THEN "SUB"
  ELSE IF op \in MultOps THEN "MULT"
  ELSE IF op \in DivOps THEN "DIV"
  ELSE IF op \in IntegerOps THEN "INTEGER"
  ELSE IF op \in BranchOps THEN "BRANCH"
  ELSE "INTEGER"

getRSType(opType) ==
  CASE opType = "LOAD" -> "LOAD"
    [] opType = "STORE" -> "STORE"
    [] opType \in {"MULT", "DIV"} -> "MULT"
    [] opType \in {"ADD", "SUB"} -> "ADD"
    [] OTHER -> "INTEGER"

\* the opcodes op for which some o of ADD, ADDI, DADDI, ADD.D, ADD.S has op.includes(o)
includesAdd(op) == op \in {"ADD", "ADDI", "DADDI", "DADD", "ADD.D", "ADD.S"}

\* op.startsWith("BNE")
isBNE(op) == op \in {"BNE", "BNEZ"}

\* op.startsWith("BEQ")
isBEQ(op) == op \in {"BEQ", "BEQZ"}

\* Math.floor(addr / blockSize), blockSize a positive integer
blockIndex(addr, blockSize) == addr.n \div (addr.d * blockSize)

\* index of the first element of seq satisfying Test, 0 when there is none
FindIndex(seq, Test(_)) ==
  LET hits == {i \in 1..Len(seq) : Test(seq[i])}
  IN  IF hits = {} THEN 0 ELSE CHOOSE i \in hits : \A j \in hits : i <= j

lastBlockFirst(blocks) ==
  IF Len(blocks) <= 1 THEN blocks
  ELSE <<blocks[Len(blocks)]>> \o SubSeq(blocks, 1, Len(blocks) - 1)

\* Array.prototype.sort((a, b) => a.lastAccess - b.lastAccess): a stable sort
RECURSIVE sortByLastAccess(_)
sortByLastAccess(blocks) ==
  IF Len(blocks) <= 1 THEN blocks
  ELSE LET rest == sortByLastAccess(Tail(blocks))
           b == Head(blocks)
           k == Cardinality({i \in 1..Len(rest) : rest[i].lastAccess < b.lastAccess})
       IN  SubSeq(rest, 1, k) \o <<b>> \o SubSeq(rest, k + 1, Len(rest))

accessCache(addr, cfg, blocks, cyc) ==
  IF ~cfg.cache.enabled THEN [hit |-> TRUE, penalty |-> 0, newCache |-> blocks]
  ELSE
    LET tag == blockIndex(addr, cfg.cache.blockSize)
        HasTag(b) == b.tag = tag
        existingBlockIdx == FindIndex(blocks, HasTag)
        newBlock == [tag |-> tag, valid |-> TRUE, lastAccess |-> cyc]
    IN  IF existingBlockIdx # 0
        THEN [hit |-> TRUE, penalty |-> 0,
              newCache |-> [blocks EXCEPT ![existingBlockIdx].lastAccess = cyc]]
        ELSE [hit |-> FALSE, penalty |-> cfg.cache.missPenalty,
              newCache |->
                \* newCache.length < cacheSize / blockSize
                IF Len(blocks) * cfg.cache.blockSize < cfg.cache.cacheSize
                THEN Append(blocks, newBlock)
                ELSE IF Len(blocks) = 0 THEN <<newBlock>>
                ELSE [sortByLastAccess(blocks) EXCEPT ![1] = newBlock]]

-----------------------------------------------------------------------------
(* Initialization *)

RSTypes == <<"ADD", "MULT", "LOAD", "STORE", "INTEGER">>

rsPrefix(type) ==
  CASE type = "ADD" -> "A"
    [] type = "MULT" -> "M"
    [] type = "LOAD" -> "L"
    [] type = "STORE" -> "S"
    [] OTHER -> "I"

idleStation(type, i) ==
  [id |-> rsPrefix(type) \o ToString(i), type |-> type, busy |-> FALSE, op |-> Null,
   vj |-> Null, vk |-> Null, qj |-> Null, qk |-> Null, a |-> Null,
   instId |-> Null, timeLeft |-> 0, result |-> Null]

\* config.rsSizes[type] as the bound of `for (let i = 0; i < count; i++)`: for a
\* class the configuration does not size, count is undefined and the loop body
\* never runs
stationCount(cfg, type) ==
  IF type \in DOMAIN cfg.rsSizes THEN cfg.rsSizes[type] ELSE 0

RECURSIVE buildStations(_, _)
buildStations(cfg, t) ==
  IF t > Len(RSTypes) THEN <<>>
  ELSE [i \in 1..stationCount(cfg, RSTypes[t]) |-> idleStation(RSTypes[t], i)]
       \o buildStations(cfg, t + 1)

initializeState(insts, cfg, initialRegs) ==
  [cycle |-> 0,
   pc |-> 0,
   instructions |-> insts,
   reservationStations |-> buildStations(cfg, 1),
   registers |-> [name \in DOMAIN initialRegs |->
                    [name |-> name, value |-> initialRegs[name], qi |-> Null]],
   memory |-> <<>>,
   cache |-> <<>>,
   cdb |-> Null,
   log |-> <<[kind |-> "initialized"]>>,
   isFinished |-> FALSE,
   branchStall |-> FALSE]

-----------------------------------------------------------------------------
(* nextCycle, phase 1: write result (broadcast on the CDB) *)

\* instructions.find(i => i.id === id) as an index, 0 when absent; id is nullable
findInst(insts, id) ==
  LET HasId(i) == Some(i.id) = id
  IN  FindIndex(insts, HasId)

isReadyToWrite(r) == r.busy /\ r.timeLeft = 0 /\ r.result # Null

\* readyToWrite[0] as an index into the station list, 0 when nothing is ready
cdbProducerIndex(rs) == FindIndex(rs, isReadyToWrite)

takesBroadcastNever(q, tag) == FALSE

\* a register or an operand slot waiting on the broadcast tag takes the value
takesBroadcast(q, tag) == q = Some(tag)

clearedStationKeepsInst(r) ==
  [r EXCEPT !.busy = FALSE, !.op = Null, !.vj = Null, !.vk = Null, !.qj = Null,
            !.qk = Null, !.a = Null, !.result = Null]

clearedStation(r) ==
  [r EXCEPT !.busy = FALSE, !.op = Null, !.vj = Null, !.vk = Null, !.qj = Null,
            !.qk = Null, !.a = Null, !.instId = Null, !.result = Null]

writeResult(s) ==
  LET rs == s.reservationStations
      p == cdbProducerIndex(rs)
  IN  IF p = 0 THEN s
      ELSE
        LET tag == rs[p].id
            val == rs[p].result[1]
            k == findInst(s.instructions, rs[p].instId)
            rs1 == [i \in 1..Len(rs) |->
                      IF rs[i].busy
                      THEN [rs[i] EXCEPT
                              !.vj = IF takesBroadcast(rs[i].qj, tag) THEN Some(val) ELSE @,
                              !.qj = IF takesBroadcast(rs[i].qj, tag) THEN Null ELSE @,
                              !.vk = IF takesBroadcast(rs[i].qk, tag) THEN Some(val) ELSE @,
                              !.qk = IF takesBroadcast(rs[i].qk, tag) THEN Null ELSE @]
                      ELSE rs[i]]
        IN  [s EXCEPT
               !.cdb = Some([tag |-> tag, value |-> val]),
               !.log = Append(@, [kind |-> "broadcast", cycle |-> s.cycle,
                                  tag |-> tag, value |-> val]),
               !.instructions =
                 IF k = 0 THEN @ ELSE [@ EXCEPT ![k].writeCycle = Some(s.cycle)],
               !.registers =
                 [n \in DOMAIN @ |->
                    IF takesBroadcast(@[n].qi, tag)
                    THEN [@[n] EXCEPT !.value = val, !.qi = Null]
                    ELSE @[n]],
               !.reservationStations = [rs1 EXCEPT ![p] = clearedStation(rs1[p])]]

-----------------------------------------------------------------------------
(* nextCycle, phase 2: execute *)

\* rs.qj === null && rs.qk === null
operandsReadyFirstOnly(r) == r.qj = Null

operandsReady(r) == r.qj = Null /\ r.qk = Null

\* memory[addr] || 0
memoryRead(mem, addr) ==
  IF addr \in DOMAIN mem /\ mem[addr] # NaN THEN mem[addr] ELSE Zero

memoryWriteDropped(mem, addr, v) == mem

memoryWrite(mem, addr, v) ==
  [x \in DOMAIN mem \cup {addr} |-> IF x = addr THEN v ELSE mem[x]]

latencyOfIgnoringMiss(opType, cfg, access) == cfg.latencies[opType]

latencyOfWithPenalty(opType, cfg, access) ==
  IF opType = "LOAD"
  THEN cfg.latencies["LOAD"] + cfg.cache.missPenalty
  ELSE cfg.latencies[opType]

\* the cycles the station is given when execution starts
latencyOf(opType, cfg, access) ==
  IF opType = "LOAD"
  THEN cfg.latencies["LOAD"] + (IF access.hit THEN 0 ELSE access.penalty)
  ELSE cfg.latencies[opType]

computeResultUnguarded(opType, op, v1, v2, mem, addr) ==
  CASE opType \in {"ADD", "INTEGER"} ->
         IF includesAdd(op) THEN Plus(v1, v2) ELSE Minus(v1, v2)
    [] opType = "SUB" -> Minus(v1, v2)
    [] opType = "MULT" -> Times(v1, v2)
    [] opType = "DIV" -> Divide(v1, v2)
    [] opType = "LOAD" -> memoryRead(mem, addr)
    [] OTHER -> NaN

\* the switch on opType that computes the result of a finished execution
computeResult(opType, op, v1, v2, mem, addr) ==
  CASE opType \in {"ADD", "INTEGER"} ->
         IF includesAdd(op) THEN Plus(v1, v2) ELSE Minus(v1, v2)
    [] opType = "SUB" -> Minus(v1, v2)
    [] opType = "MULT" -> Times(v1, v2)
    [] opType = "DIV" -> IF v2 # Zero THEN Divide(v1, v2) ELSE Zero
    [] opType = "LOAD" -> memoryRead(mem, addr)
    [] OTHER -> NaN

branchTakenInverted(op, v1, v2) == (isBNE(op) /\ v1 = v2) \/ (isBEQ(op) /\ v1 # v2)

branchTakenNever(op, v1, v2) == FALSE

branchTaken(op, v1, v2) == (isBNE(op) /\ v1 # v2) \/ (isBEQ(op) /\ v1 = v2)

\* rs.timeLeft === 0 && inst.execEndCycle === null
executionFinishedAgain(timeLeft, inst) == timeLeft = 0

executionFinished(timeLeft, inst) == timeLeft = 0 /\ inst.execEndCycle = Null

retiresStoresOnly(opType) == opType = "STORE"

retiresBranchesOnly(opType) == opType = "BRANCH"

retiresLoadsToo(opType) == opType \in {"STORE", "BRANCH", "LOAD"}

\* stores and branches do not write back on the CDB: their station is cleared at once
retiresAtExecute(opType) == opType \in {"STORE", "BRANCH"}

\* the body of reservationStations.forEach in the execute phase, for station i
executeStation(s, cfg, lbls, i) ==
  LET r == s.reservationStations[i]
      k == findInst(s.instructions, r.instId)
  IN  IF ~r.busy \/ ~operandsReady(r) \/ k = 0 THEN s
      ELSE
        LET inst == s.instructions[k]
            opType == getOpType(inst.op)
            starting == inst.execStartCycle = Null
            effectiveAddr == OrZero(r.a)
            loadStart == starting /\ opType = "LOAD"
            access == accessCache(effectiveAddr, cfg, s.cache, s.cycle)
            t1 == IF starting THEN latencyOf(opType, cfg, access) ELSE r.timeLeft
            t2 == IF t1 > 0 THEN t1 - 1 ELSE t1
            finishing == executionFinished(t2, inst)
            v1 == OrZero(r.vj)
            v2 == OrZero(r.vk)
            res == computeResult(opType, inst.op, v1, v2, s.memory, effectiveAddr)
            taken == finishing /\ opType = "BRANCH" /\ branchTaken(inst.op, v1, v2)
                       /\ inst.src2 \in DOMAIN lbls
            retire == finishing /\ retiresAtExecute(opType)
            r1 == [r EXCEPT !.timeLeft = t2,
                            !.result = IF finishing THEN Some(res) ELSE @]
            log1 == IF loadStart /\ ~access.hit
                    THEN Append(s.log, [kind |-> "cacheMiss", cycle |-> s.cycle,
                                        op |-> inst.op, addr |-> effectiveAddr])
                    ELSE s.log
        IN  [s EXCEPT
               !.cache = IF loadStart THEN access.newCache ELSE @,
               !.log = IF taken
                       THEN Append(log1, [kind |-> "branchTaken", cycle |-> s.cycle,
                                          label |-> inst.src2])
                       ELSE log1,
               !.memory = IF finishing /\ opType = "STORE"
                          THEN memoryWrite(@, effectiveAddr, v2) ELSE @,
               !.pc = IF taken THEN lbls[inst.src2] ELSE @,
               !.branchStall = IF finishing /\ opType = "BRANCH" THEN FALSE ELSE @,
               !.instructions =
                 [@ EXCEPT ![k] =
                    [inst EXCEPT
                       !.execStartCycle = IF starting THEN Some(s.cycle) ELSE @,
                       !.execEndCycle = IF finishing THEN Some(s.cycle) ELSE @,
                       !.writeCycle = IF retire THEN Some(s.cycle) ELSE @]],
               !.reservationStations =
                 [@ EXCEPT ![i] = IF retire THEN clearedStation(r1) ELSE r1]]

\* reservationStations.forEach(...): the stations in list order, from station i on
RECURSIVE executeFrom(_, _, _, _)
executeFrom(s, cfg, lbls, i) ==
  IF i > Len(s.reservationStations) THEN s
  ELSE executeFrom(executeStation(s, cfg, lbls, i), cfg, lbls, i + 1)

execute(s, cfg, lbls) == executeFrom(s, cfg, lbls, 1)

-----------------------------------------------------------------------------
(* nextCycle, phase 3: issue *)

\* the issue phase runs only when no branch is unresolved
issueAllowedAlways(s) == TRUE

\* the issue phase is skipped while a branch is unresolved
issueAllowed(s) == ~s.branchStall

RECURSIVE maxId(_)
maxId(insts) ==
  IF insts = <<>> THEN 0
  ELSE LET m == maxId(Tail(insts))
       IN  IF Head(insts).id > m THEN Head(insts).id ELSE m

\* dynamic loop handling: a new instance of the first instruction at the PC
cloneOf(template, insts) ==
  [template EXCEPT !.id = maxId(insts) + 1, !.issueCycle = Null,
                   !.execStartCycle = Null, !.execEndCycle = Null, !.writeCycle = Null]

\* the instruction list after the fetch, and the index in it of issueInst (0: none)
fetch(s) ==
  LET AtPc(i) == i.pcAddress = s.pc
      Pending(i) == i.pcAddress = s.pc /\ i.issueCycle = Null
      pending == FindIndex(s.instructions, Pending)
      template == FindIndex(s.instructions, AtPc)
  IN  IF pending # 0 THEN [insts |-> s.instructions, k |-> pending]
      ELSE IF template # 0
      THEN [insts |-> Append(s.instructions,
                             cloneOf(s.instructions[template], s.instructions)),
            k |-> Len(s.instructions) + 1]
      ELSE [insts |-> s.instructions, k |-> 0]

resolveAddressNeverWaits(regs, bus, baseReg, offset) ==
  [stall |-> FALSE,
   addr |-> Some(Plus(IF baseReg \in DOMAIN regs THEN regs[baseReg].value ELSE Zero,
                      Num(offset)))]

\* base register resolution: [stall, addr]
resolveAddress(regs, bus, baseReg, offset) ==
  IF baseReg \in DOMAIN regs /\ regs[baseReg].qi # Null
  THEN IF bus # Null /\ Some(bus[1].tag) = regs[baseReg].qi
       THEN [stall |-> FALSE, addr |-> Some(Plus(bus[1].value, Num(offset)))]
       ELSE [stall |-> TRUE, addr |-> Null]
  ELSE [stall |-> FALSE,
        addr |-> Some(Plus(IF baseReg \in DOMAIN regs THEN regs[baseReg].value ELSE Zero,
                           Num(offset)))]

memoryHazardNever(rs, insts, opType, id, effectiveAddr) == FALSE

\* load/store ordering: an earlier memory operation in a busy station at the same address
memoryHazard(rs, insts, opType, id, effectiveAddr) ==
  \E c \in 1..Len(rs) :
    /\ rs[c].busy
    /\ rs[c].instId # Null
    /\ rs[c].instId[1] < id
    /\ rs[c].a = effectiveAddr
    /\ LET k == findInst(insts, rs[c].instId)
           checkOp == IF k # 0 THEN getOpType(insts[k].op) ELSE "INTEGER"
       IN  \/ opType = "LOAD" /\ checkOp = "STORE"
           \/ opType = "STORE" /\ checkOp \in {"LOAD", "STORE"}

freeStationIgnoringBusy(rs, rsType) ==
  LET OfType(r) == r.type = rsType
  IN  FindIndex(rs, OfType)

\* reservationStations.find(r => r.type === rsType && !r.busy) as an index, 0: none
freeStation(rs, rsType) ==
  LET Free(r) == r.type = rsType /\ ~r.busy
  IN  FindIndex(rs, Free)

resolveOperandKeepsValue(regs, bus, regName) ==
  IF regName \notin DOMAIN regs THEN [v |-> Some(Zero), q |-> Null]
  ELSE IF regs[regName].qi # Null
  THEN IF bus # Null /\ Some(bus[1].tag) = regs[regName].qi
       THEN [v |-> Some(bus[1].value), q |-> Null]
       ELSE [v |-> Some(regs[regName].value), q |-> regs[regName].qi]
  ELSE [v |-> Some(regs[regName].value), q |-> Null]

resolveOperand(regs, bus, regName) ==
  IF regName \notin DOMAIN regs THEN [v |-> Some(Zero), q |-> Null]
  ELSE IF regs[regName].qi # Null
  THEN IF bus # Null /\ Some(bus[1].tag) = regs[regName].qi
       THEN [v |-> Some(bus[1].value), q |-> Null]
       ELSE [v |-> Null, q |-> regs[regName].qi]
  ELSE [v |-> Some(regs[regName].value), q |-> Null]

noOperand == [v |-> Null, q |-> Null]

\* operand 1 (Vj/Qj)
operandJ(regs, bus, opType, inst) ==
  IF opType = "BRANCH"
  THEN IF inst.dest # "" THEN resolveOperand(regs, bus, inst.dest) ELSE noOperand
  ELSE IF inst.src1 # "" THEN resolveOperand(regs, bus, inst.src1) ELSE noOperand

\* operand 2 (Vk/Qk)
operandK(regs, bus, opType, inst) ==
  IF opType = "STORE" THEN resolveOperand(regs, bus, inst.dest)
  ELSE IF opType = "BRANCH"
  THEN IF inst.src1 # "" THEN resolveOperand(regs, bus, inst.src1) ELSE noOperand
  ELSE IF opType = "LOAD" THEN noOperand
  ELSE IF inst.src2 \in DOMAIN regs THEN resolveOperand(regs, bus, inst.src2)
  ELSE [v |-> Some(Num(inst.immediate)), q |-> Null]

\* the register alias table is updated for every opcode that writes a register
writesRegister(opType) == opType \notin {"STORE", "BRANCH"}

issue(s) ==
  IF ~issueAllowed(s) THEN s
  ELSE
    LET f == fetch(s)
        s1 == [s EXCEPT !.instructions = f.insts]
    IN  IF f.k = 0 THEN s1
        ELSE
          LET issueInst == f.insts[f.k]
              opType == getOpType(issueInst.op)
              rsType == getRSType(opType)
              isMem == opType \in {"LOAD", "STORE"}
              ra == resolveAddress(s.registers, s.cdb, issueInst.src1, issueInst.immediate)
              stallIssue ==
                isMem /\ (ra.stall \/ memoryHazard(s.reservationStations, f.insts,
                                                   opType, issueInst.id, ra.addr))
              free == freeStation(s.reservationStations, rsType)
          IN  IF stallIssue \/ free = 0 THEN s1
              ELSE
                LET oj == operandJ(s.registers, s.cdb, opType, issueInst)
                    ok == operandK(s.registers, s.cdb, opType, issueInst)
                    freeRS == s.reservationStations[free]
                IN  [s1 EXCEPT
                       !.instructions = [@ EXCEPT ![f.k].issueCycle = Some(s.cycle)],
                       !.pc = @ + 4,
                       !.branchStall = IF opType = "BRANCH" THEN TRUE ELSE @,
                       !.reservationStations =
                         [@ EXCEPT ![free] =
                            [freeRS EXCEPT !.busy = TRUE, !.op = Some(issueInst.op),
                               !.instId = Some(issueInst.id),
                               !.vj = oj.v, !.vk = ok.v, !.qj = oj.q, !.qk = ok.q,
                               !.a = IF isMem THEN ra.addr ELSE Null,
                               !.timeLeft = 0, !.result = Null]],
                       !.registers =
                         IF writesRegister(opType) /\ issueInst.dest \in DOMAIN @
                         THEN [@ EXCEPT ![issueInst.dest].qi = Some(freeRS.id)]
                         ELSE @]

-----------------------------------------------------------------------------
(* nextCycle: completion check and the whole step *)

allIssued(insts) == \A k \in 1..Len(insts) : insts[k].issueCycle # Null

allWritten(insts) == \A k \in 1..Len(insts) : insts[k].writeCycle # Null

pcIsValid(insts, p) == \E k \in 1..Len(insts) : insts[k].pcAddress = p

completed(s) == allWritten(s.instructions) /\ ~pcIsValid(s.instructions, s.pc)

checkCompletion(s) ==
  IF completed(s)
  THEN [s EXCEPT !.isFinished = TRUE, !.log = Append(@, [kind |-> "completed"])]
  ELSE s

returnsInputNever(s) == FALSE

\* if (state.isFinished) return state
returnsInput(s) == s.isFinished

nextCycleExecuteFirst(s, cfg, lbls) ==
  IF returnsInput(s) THEN s
  ELSE checkCompletion(issue(writeResult(execute(
         [s EXCEPT !.cycle = @ + 1, !.cdb = Null], cfg, lbls))))

nextCycle(s, cfg, lbls) ==
  IF returnsInput(s) THEN s
  ELSE checkCompletion(issue(execute(writeResult(
         [s EXCEPT !.cycle = @ + 1, !.cdb = Null]), cfg, lbls)))

stepOutcomesOrInput(s, cfg, lbls) == {nextCycle(s, cfg, lbls), s}

\* the states a call of nextCycle can return: the code draws on nothing but its
\* arguments (no clock, no random number, no unordered iteration)
stepOutcomes(s, cfg, lbls) == {nextCycle(s, cfg, lbls)}

\* the caller's state object after the call that returned t.  nextState is a
\* shallow copy: cycle, pc, cdb, flags, the log array, the instruction array
\* and the cache array are its own, while the station array, the register
\* objects, the memory object and the instruction objects are the caller's and
\* are updated in place
priorAfter(s, t) ==
  IF returnsInput(s) THEN s
  ELSE [s EXCEPT !.reservationStations = t.reservationStations,
                 !.registers = t.registers,
                 !.memory = t.memory,
                 !.instructions = SubSeq(t.instructions, 1, Len(s.instructions))]

-----------------------------------------------------------------------------
(* The assembly parser.  A source line is given tokenised: its label ("" when *)
(* the line has no `NAME:` prefix), its opcode ("" on a pure label line) and  *)
(* its operand tokens.  A token carries its text, what parseInt makes of it   *)
(* and, for the OFFSET(BASE) form, the two parts the regular expression finds.*)

Reg(name) == [text |-> name, int |-> Null, mem |-> Null]

Imm(i) == [text |-> ToString(i), int |-> Some(i), mem |-> Null]

Mem(off, base) ==
  [text |-> ToString(off) \o "(" \o base \o ")", int |-> Some(off),
   mem |-> Some([off |-> off, base |-> base])]

NoToken == [text |-> "", int |-> Null, mem |-> Null]

Line(label, op, args) == [label |-> label, op |-> op, args |-> args]

\* first pass: the lines that hold an instruction, in order (cleanLines)
cleanLines(lines) ==
  LET HasCode(l) == l.op # ""
  IN  SelectSeq(lines, HasCode)

\* first pass: labels[label] = pcCounter, a later definition of a label winning
labelMap(lines) ==
  LET names == {lines[i].label : i \in 1..Len(lines)} \ {""}
      last(nm) == CHOOSE i \in 1..Len(lines) :
                    /\ lines[i].label = nm
                    /\ \A j \in 1..Len(lines) : lines[j].label = nm => j <= i
  IN  [nm \in names |-> 4 * Len(cleanLines(SubSeq(lines, 1, last(nm) - 1)))]

\* second pass, one instruction: item is the line, index its position from 0
parseLine(item, index, lbls) ==
  LET arg(n) == IF n <= Len(item.args) THEN item.args[n] ELSE NoToken
      dest == arg(1).text
      isMem == arg(2).mem # Null
      src1 == IF isMem THEN arg(2).mem[1].base ELSE arg(2).text
      imm == IF isMem THEN arg(2).mem[1].off
             ELSE IF arg(3).int # Null THEN arg(3).int[1] ELSE 0
      src2 == IF isMem THEN ToString(imm)
              ELSE IF arg(3).text \in DOMAIN lbls THEN arg(3).text
              ELSE IF arg(2).text \in DOMAIN lbls /\ arg(3).text = "" THEN arg(2).text
              ELSE arg(3).text
  IN  [id |-> index, op |-> item.op, dest |-> dest, src1 |-> src1, src2 |-> src2,
       immediate |-> imm, pcAddress |-> 4 * index,
       issueCycle |-> Null, execStartCycle |-> Null, execEndCycle |-> Null,
       writeCycle |-> Null]

parseAssembly(lines) ==
  LET clean == cleanLines(lines)
      lbls == labelMap(lines)
  IN  [instructions |-> [i \in 1..Len(clean) |-> parseLine(clean[i], i - 1, lbls)],
       labels |-> lbls]

-----------------------------------------------------------------------------
(* The runs that are explored: source programs, configurations, registers *)

\* no step is taken from a state whose cycle has reached MaxCycle
MaxCycle == 40

\* the generated programs have at most MaxProgLen lines
MaxProgLen == 2

SampleSequential ==
  << Line("", "L.D", <<Reg("F6"), Mem(0, "R2")>>),
     Line("", "L.D", <<Reg("F2"), Mem(8, "R2")>>),
     Line("", "MUL.D", <<Reg("F0"), Reg("F2"), Reg("F4")>>),
     Line("", "SUB.D", <<Reg("F8"), Reg("F2"), Reg("F6")>>),
     Line("", "DIV.D", <<Reg("F10"), Reg("F0"), Reg("F6")>>),
     Line("", "ADD.D", <<Reg("F6"), Reg("F8"), Reg("F2")>>),
     Line("", "S.D", <<Reg("F6"), Mem(8, "R2")>>) >>

SampleLoop ==
  << Line("", "DADDI", <<Reg("R1"), Reg("R1"), Imm(24)>>),
     Line("", "DADDI", <<Reg("R2"), Reg("R2"), Imm(0)>>),
     Line("LOOP", "L.D", <<Reg("F0"), Mem(0, "R1")>>),
     Line("", "MUL.D", <<Reg("F4"), Reg("F0"), Reg("F2")>>),
     Line("", "S.D", <<Reg("F4"), Mem(0, "R1")>>),
     Line("", "SUBI", <<Reg("R1"), Reg("R1"), Imm(8)>>),
     Line("", "BNE", <<Reg("R1"), Reg("R2"), Reg("LOOP")>>) >>

FourMultiplies ==
  << Line("", "MUL.D", <<Reg("F0"), Reg("F2"), Reg("F4")>>),
     Line("", "MUL.D", <<Reg("F6"), Reg("F2"), Reg("F4")>>),
     Line("", "MUL.D", <<Reg("F8"), Reg("F2"), Reg("F4")>>),
     Line("", "MUL.D", <<Reg("F10"), Reg("F2"), Reg("F4")>>) >>

StoreThenLoad ==
  << Line("", "S.D", <<Reg("F0"), Mem(0, "R1")>>),
     Line("", "L.D", <<Reg("F2"), Mem(0, "R1")>>) >>

ThreeLoads ==
  << Line("", "L.D", <<Reg("F0"), Mem(0, "R2")>>),
     Line("", "L.D", <<Reg("F2"), Mem(4, "R2")>>),
     Line("", "L.D", <<Reg("F4"), Mem(8, "R2")>>) >>

BranchThenFollower ==
  << Line("", "MUL.D", <<Reg("F0"), Reg("F2"), Reg("F2")>>),
     Line("", "DADDI", <<Reg("R1"), Reg("R1"), Imm(8)>>),
     Line("", "BNE", <<Reg("R1"), Reg("R2"), Reg("END")>>),
     Line("", "ADD.D", <<Reg("F4"), Reg("F0"), Reg("F2")>>),
     Line("END", "SUB.D", <<Reg("F6"), Reg("F0"), Reg("F2")>>) >>

\* a forward branch skips an instruction that a later backward branch reaches
SkipThenReturn ==
  << Line("", "BEQ", <<Reg("R1"), Reg("R1"), Reg("FWD")>>),
     Line("BACK", "S.D", <<Reg("F2"), Mem(0, "R2")>>),
     Line("", "BEQ", <<Reg("R1"), Reg("R1"), Reg("END")>>),
     Line("FWD", "L.D", <<Reg("F0"), Mem(0, "R2")>>),
     Line("", "BEQ", <<Reg("R1"), Reg("R1"), Reg("BACK")>>),
     Line("END", "", <<>>) >>

\* a branch whose target label is defined nowhere in the source
UndefinedTarget ==
  << Line("", "BNE", <<Reg("R1"), Reg("R2"), Reg("NOWHERE")>>),
     Line("", "DADDI", <<Reg("R2"), Reg("R2"), Imm(8)>>) >>

\* a line whose opcode is none of the opcodes getOpType lists
UnknownOpcode ==
  << Line("", "FOO", <<Reg("F0"), Reg("F2"), Reg("F4")>>),
     Line("", "ADD.D", <<Reg("F6"), Reg("F0"), Reg("F2")>>) >>

SamplePrograms ==
  {SampleSequential, SampleLoop, FourMultiplies, StoreThenLoad, ThreeLoads,
   BranchThenFollower, SkipThenReturn, UndefinedTarget, UnknownOpcode}

\* the lines the generated programs are made of; TOP labels their first line
LinePool ==
  { Line("", "L.D", <<Reg("F0"), Mem(0, "R1")>>),
    Line("", "S.D", <<Reg("F4"), Mem(0, "R1")>>),
    Line("", "ADD.D", <<Reg("F0"), Reg("F0"), Reg("F2")>>),
    Line("", "MUL.D", <<Reg("F4"), Reg("F0"), Reg("F2")>>),
    Line("", "DIV.D", <<Reg("F2"), Reg("F4"), Reg("F0")>>),
    Line("", "DADDI", <<Reg("R1"), Reg("R1"), Imm(8)>>),
    Line("", "BNE", <<Reg("R1"), Reg("R2"), Reg("TOP")>>),
    Line("", "BEQ", <<Reg("R1"), Reg("R2"), Reg("TOP")>>) }

GeneratedPrograms ==
  { <<Line("TOP", "", <<>>)>> \o body :
      body \in UNION {[1..n -> LinePool] : n \in 0..MaxProgLen} }

Programs == SamplePrograms \cup GeneratedPrograms

INITIAL_REGISTERS ==
  {"F0", "F2", "F4", "F6", "F8", "F10", "F12", "F14", "F16", "F18", "F20",
   "R1", "R2", "R3", "R4"}

\* resetAndInit: every register 0, F2 = 1.33
defaultRegs == [name \in INITIAL_REGISTERS |-> IF name = "F2" THEN Norm(133, 100) ELSE Zero]

\* the register values a run starts from: the defaults, or values edited at cycle 0
RegisterFiles ==
  { defaultRegs,
    [defaultRegs EXCEPT !["R1"] = Num(8), !["F0"] = Num(3), !["F4"] = Num(2)] }

Configs ==
  { [rsSizes |-> [ADD |-> 3, MULT |-> 2, LOAD |-> 3, STORE |-> 3, INTEGER |-> 2],
     latencies |-> [LOAD |-> 2, STORE |-> 2, ADD |-> 2, SUB |-> 2, MULT |-> 4,
                    DIV |-> 6, INTEGER |-> 1, BRANCH |-> 1],
     cache |-> [enabled |-> TRUE, blockSize |-> 4, cacheSize |-> 8, missPenalty |-> 3]],
    [rsSizes |-> [ADD |-> 1, MULT |-> 1, LOAD |-> 1, STORE |-> 1, INTEGER |-> 1],
     latencies |-> [LOAD |-> 1, STORE |-> 1, ADD |-> 1, SUB |-> 1, MULT |-> 2,
                    DIV |-> 2, INTEGER |-> 1, BRANCH |-> 2],
     cache |-> [enabled |-> FALSE, blockSize |-> 4, cacheSize |-> 16, missPenalty |-> 10]],
    [rsSizes |-> [ADD |-> 2, MULT |-> 2, LOAD |-> 2, STORE |-> 2, INTEGER |-> 2],
     latencies |-> [LOAD |-> 1, STORE |-> 3, ADD |-> 1, SUB |-> 1, MULT |-> 1,
                    DIV |-> 1, INTEGER |-> 2, BRANCH |-> 1],
     cache |-> [enabled |-> TRUE, blockSize |-> 8, cacheSize |-> 8, missPenalty |-> 1]],
    [rsSizes |-> [ADD |-> 1, MULT |-> 1, LOAD |-> 2, STORE |-> 1, INTEGER |-> 1],
     latencies |-> [LOAD |-> 1, STORE |-> 1, ADD |-> 1, SUB |-> 1, MULT |-> 1,
                    DIV |-> 1, INTEGER |-> 1, BRANCH |-> 1],
     cache |-> [enabled |-> TRUE, blockSize |-> 4, cacheSize |-> 6, missPenalty |-> 2]] }

-----------------------------------------------------------------------------
(* The state machine *)

state ==
  [cycle |-> cycle, pc |-> pc, instructions |-> instructions,
   reservationStations |-> reservationStations, registers |-> registers,
   memory |-> memory, cache |-> cache, cdb |-> cdb, log |-> log,
   isFinished |-> isFinished, branchStall |-> branchStall]

\* the configuration the application starts with
DEFAULT_CONFIG ==
  [rsSizes |-> [ADD |-> 3, MULT |-> 2, LOAD |-> 3, STORE |-> 3],
   latencies |-> [LOAD |-> 2, STORE |-> 2, ADD |-> 2, SUB |-> 2, MULT |-> 10,
                  DIV |-> 40, BRANCH |-> 1],
   cache |-> [enabled |-> TRUE, blockSize |-> 4, cacheSize |-> 16, hitLatency |-> 1,
              missPenalty |-> 10],
   memorySize |-> 256]

\* resetAndInit, for a program, a configuration and register values of the given sets
InitFrom(progs, cfgs, regFiles) ==
  \E prog \in progs, cfg \in cfgs, regs \in regFiles :
    LET parsed == parseAssembly(prog)
        s == initializeState(parsed.instructions, cfg, regs)
    IN  /\ cycle = s.cycle
        /\ pc = s.pc
        /\ instructions = s.instructions
        /\ reservationStations = s.reservationStations
        /\ registers = s.registers
        /\ memory = s.memory
        /\ cache = s.cache
        /\ cdb = s.cdb
        /\ log = s.log
        /\ isFinished = s.isFinished
        /\ branchStall = s.branchStall
        /\ config = cfg
        /\ labels = parsed.labels
        /\ producers = {}
        /\ code = prog
        /\ initialRegisters = regs
        /\ prior = s

Init == InitFrom(Programs, Configs, RegisterFiles)

\* the station of the list rs bound to instruction id, 0 when there is none
stationOf(rs, id) ==
  LET Bound(r) == r.instId = Some(id)
  IN  FindIndex(rs, Bound)

\* the station of the list rs named tag, 0 when there is none
stationNamed(rs, tag) ==
  LET Named(r) == r.id = tag
  IN  FindIndex(rs, Named)

\* history: the operand tags the instruction issued by the step s -> t was given,
\* each with the instruction then bound to the station the tag names
producersIssued(s, t) ==
  { [c |-> t.instructions[k].id, slot |-> sl, tag |-> tg,
     p |-> t.reservationStations[stationNamed(t.reservationStations, tg)].instId]
      : <<k, sl, tg>> \in
          { <<k, sl, tg>> \in (1..Len(t.instructions)) \X {"j", "k"}
                               \X {t.reservationStations[x].id :
                                     x \in 1..Len(t.reservationStations)} :
              /\ t.cycle # s.cycle
              /\ t.instructions[k].issueCycle = Some(t.cycle)
              /\ LET x == stationOf(t.reservationStations, t.instructions[k].id)
                 IN  /\ x # 0
                     /\ Some(tg) = IF sl = "j" THEN t.reservationStations[x].qj
                                   ELSE t.reservationStations[x].qk } }

\* handleNextCycle: one call of nextCycle
Step ==
  /\ cycle < MaxCycle
  /\ \E t \in stepOutcomes(state, config, labels) :
         /\ cycle' = t.cycle
         /\ pc' = t.pc
         /\ instructions' = t.instructions
         /\ reservationStations' = t.reservationStations
         /\ registers' = t.registers
         /\ memory' = t.memory
         /\ cache' = t.cache
         /\ cdb' = t.cdb
         /\ log' = t.log
         /\ isFinished' = t.isFinished
         /\ branchStall' = t.branchStall
         /\ producers' = producers \cup producersIssued(state, t)
         /\ prior' = IF returnsInput(state) THEN prior ELSE priorAfter(state, t)
  /\ UNCHANGED <<config, labels, code, initialRegisters>>

Next == Step

Spec == Init /\ [][Next]_vars

\* a call of nextCycle on a state that is not finished: the cycle advances
Advance == cycle < MaxCycle /\ ~isFinished /\ cycle' = cycle + 1

\* the caller keeps stepping as long as the run is not finished
LiveSpec == Init /\ [][Next]_vars /\ WF_cycle(Advance)

-----------------------------------------------------------------------------
(* Timestamps *)

IsSet(o) == o # Null

\* a <= b for two set timestamps
Leq(a, b) == a[1] <= b[1]

TimestampsOrdered(i) ==
  /\ IsSet(i.execStartCycle) => IsSet(i.issueCycle) /\ Leq(i.issueCycle, i.execStartCycle)
  /\ IsSet(i.execEndCycle) => IsSet(i.execStartCycle) /\ Leq(i.execStartCycle, i.execEndCycle)
  /\ IsSet(i.writeCycle) => IsSet(i.execEndCycle) /\ Leq(i.execEndCycle, i.writeCycle)
  /\ \A t \in {i.issueCycle, i.execStartCycle, i.execEndCycle, i.writeCycle} :
       IsSet(t) => t[1] <= cycle

\* a set timestamp of instruction i is the same in i2
TimestampsKept(i, i2) ==
  /\ IsSet(i.issueCycle) => i2.issueCycle = i.issueCycle
  /\ IsSet(i.execStartCycle) => i2.execStartCycle = i.execStartCycle
  /\ IsSet(i.execEndCycle) => i2.execEndCycle = i.execEndCycle
  /\ IsSet(i.writeCycle) => i2.writeCycle = i.writeCycle

\* C1: in every state the set timestamps of every dynamic instruction are in the
\* order issue <= execStart <= execEnd <= write with no later one set while an
\* earlier one is absent, each is <= the current cycle, and no step changes a
\* timestamp that is set (nor removes or renumbers an instruction).
C1_TimestampsOrderedAndStable ==
  /\ [](\A k \in 1..Len(instructions) : TimestampsOrdered(instructions[k]))
  /\ [][/\ Len(instructions') >= Len(instructions)
        /\ \A k \in 1..Len(instructions) :
             /\ instructions'[k].id = instructions[k].id
             /\ TimestampsKept(instructions[k], instructions'[k])]_vars

\* C1 witness: an instruction that has gone through all four stages, its execution
\* taking more than one cycle and its write-back coming after it
C1_Witness ==
  \E k \in 1..Len(instructions) :
    /\ IsSet(instructions[k].writeCycle)
    /\ instructions[k].issueCycle[1] < instructions[k].execStartCycle[1]
    /\ instructions[k].execStartCycle[1] < instructions[k].execEndCycle[1]
    /\ instructions[k].execEndCycle[1] < instructions[k].writeCycle[1]
    /\ instructions[k].writeCycle[1] < cycle

-----------------------------------------------------------------------------
(* The common data bus *)

Stations == 1..Len(reservationStations)

Insts == 1..Len(instructions)

\* the instruction bound to a busy station (the index of it in the list, 0: none)
boundInst(r) == findInst(instructions, r.instId)

usesCDB(i) == getOpType(i.op) \notin {"STORE", "BRANCH"}

readyStations == {x \in Stations : isReadyToWrite(reservationStations[x])}

\* C2: no two instructions other than stores and branches have the same
\* writeCycle, and a step changes at most one of the stations that are ready to
\* write: when there are ready stations the step broadcasts for exactly one of
\* them, and every other ready station is the same after the step (busy, its
\* result intact).
C2_OneBroadcastPerCycle ==
  /\ [](\A k1, k2 \in Insts :
          /\ k1 # k2
          /\ usesCDB(instructions[k1]) /\ usesCDB(instructions[k2])
          /\ IsSet(instructions[k1].writeCycle)
          => instructions[k1].writeCycle # instructions[k2].writeCycle)
  /\ [][readyStations # {} =>
          /\ cdb' # Null
          /\ \E x \in readyStations :
               /\ reservationStations[x].id = cdb'[1].tag
               /\ ~reservationStations'[x].busy \/ reservationStations'[x].result = Null
               /\ \A y \in readyStations \ {x} :
                    reservationStations'[y] = reservationStations[y]]_vars

\* C2 witness: two stations are ready to write in the same cycle
C2_Witness == Cardinality(readyStations) >= 2

\* C3: every register that carries a tag names exactly one busy station
C3_RegisterTagNamesBusyStation ==
  \A n \in DOMAIN registers :
    registers[n].qi # Null =>
      Cardinality({x \in Stations : /\ reservationStations[x].busy
                                    /\ reservationStations[x].id = registers[n].qi[1]}) = 1

\* C3 witness: a register still carries a tag in a state reached by a broadcast
\* that cleared other tags and released its producer
C3_Witness ==
  /\ cdb # Null
  /\ \E n \in DOMAIN registers : registers[n].qi # Null
  /\ \E x \in Stations : ~reservationStations[x].busy /\ reservationStations[x].id = cdb[1].tag

\* C4: a station is busy exactly when it has a bound instruction identity, and the
\* instruction bound to a busy station is in the list, issued and not yet written
C4_BusyStationBoundToIssuedUnwritten ==
  \A x \in Stations :
    LET r == reservationStations[x]
    IN  /\ r.busy <=> r.instId # Null
        /\ r.busy =>
             /\ Cardinality({k \in Insts : instructions[k].id = r.instId[1]}) = 1
             /\ IsSet(instructions[boundInst(r)].issueCycle)
             /\ ~IsSet(instructions[boundInst(r)].writeCycle)

\* C4 witness: a busy station next to a station released by a write-back and
\* a station released by the retirement of a store or branch
C4_Witness ==
  /\ \E x \in Stations : reservationStations[x].busy
  /\ \E k \in Insts : usesCDB(instructions[k]) /\ IsSet(instructions[k].writeCycle)
  /\ \E k \in Insts : ~usesCDB(instructions[k]) /\ IsSet(instructions[k].writeCycle)

-----------------------------------------------------------------------------
(* Read after write *)

\* the instruction of identity id
instOf(id) == instructions[findInst(instructions, Some(id))]

\* the value the station named tag broadcast in cycle c, as the log records it
broadcastValue(tag, c) ==
  LET k == CHOOSE k \in 1..Len(log) :
             log[k].kind = "broadcast" /\ log[k].cycle = c /\ log[k].tag = tag
  IN  log[k].value

\* the tag and the value of operand slot sl of station r
slotTag(r, sl) == IF sl = "j" THEN r.qj ELSE r.qk

slotValue(r, sl) == IF sl = "j" THEN r.vj ELSE r.vk

\* C5: when consumer C was issued with an operand tag naming the station of
\* producer P, C has no execStartCycle before P has a writeCycle and its
\* execStartCycle is not smaller than P's writeCycle; until P writes back the
\* operand slot of C keeps the tag and holds no value, and from P's write-back
\* on, as long as C holds its station, the slot holds the value P broadcast.
C5_ReadAfterWrite ==
  \A e \in producers :
    /\ e.p # Null
    /\ LET C == instOf(e.c)
           P == instOf(e.p[1])
           x == stationOf(reservationStations, e.c)
       IN  /\ IsSet(C.execStartCycle) =>
                IsSet(P.writeCycle) /\ Leq(P.writeCycle, C.execStartCycle)
           /\ x # 0 =>
                IF IsSet(P.writeCycle)
                THEN /\ slotTag(reservationStations[x], e.slot) = Null
                     /\ slotValue(reservationStations[x], e.slot)
                          = Some(broadcastValue(e.tag, P.writeCycle[1]))
                ELSE /\ slotTag(reservationStations[x], e.slot) = Some(e.tag)
                     /\ slotValue(reservationStations[x], e.slot) = Null

\* C5 witness: a consumer that waited for its producer is executing, on a value
\* other than zero that the producer broadcast, some cycles after it was issued
C5_Witness ==
  \E e \in producers :
    LET C == instOf(e.c)
        x == stationOf(reservationStations, e.c)
    IN  /\ x # 0
        /\ IsSet(C.execStartCycle)
        /\ C.issueCycle[1] + 1 < C.execStartCycle[1]
        /\ slotValue(reservationStations[x], e.slot) \notin {Null, Some(Zero)}

-----------------------------------------------------------------------------
(* Memory disambiguation *)

opTypeOf(i) == getOpType(i.op)

\* the memory operation of station y is one that an operation of type opType
\* has to stay behind
ordersBefore(y, opType) ==
  LET other == opTypeOf(instructions[boundInst(reservationStations[y])])
  IN  \/ opType = "LOAD" /\ other = "STORE"
      \/ opType = "STORE" /\ other \in {"LOAD", "STORE"}

\* an instruction writing register reg was issued after cycle a and before cycle b
writtenBetween(reg, a, b) ==
  \E k \in Insts :
    /\ instructions[k].dest = reg
    /\ opTypeOf(instructions[k]) \notin {"STORE", "BRANCH"}
    /\ IsSet(instructions[k].issueCycle)
    /\ a < instructions[k].issueCycle[1]
    /\ instructions[k].issueCycle[1] < b

\* C6: in the state a step returns, the LOAD or STORE issued by that step shares
\* its effective address with no busy station holding an earlier (smaller
\* identity) conflicting memory operation: a STORE for a LOAD, a LOAD or STORE for
\* a STORE. And a LOAD issued after an earlier STORE to the same base register and
\* offset, the base register not written in between (as in S.D F0,0(R1);
\* L.D F2,0(R1)), has an issueCycle not smaller than the store's writeCycle.
C6_MemoryDisambiguation ==
  /\ \A k \in Insts :
       LET i == instructions[k]
           x == stationOf(reservationStations, i.id)
       IN  i.issueCycle = Some(cycle) /\ opTypeOf(i) \in {"LOAD", "STORE"} =>
             /\ x # 0
             /\ \A y \in Stations :
                  /\ reservationStations[y].busy
                  /\ reservationStations[y].instId[1] < i.id
                  /\ reservationStations[y].a = reservationStations[x].a
                  => ~ordersBefore(y, opTypeOf(i))
  /\ \A ks, kl \in Insts :
       LET S == instructions[ks]
           L == instructions[kl]
       IN  /\ opTypeOf(S) = "STORE" /\ opTypeOf(L) = "LOAD"
           /\ S.src1 = L.src1 /\ S.immediate = L.immediate
           /\ S.id < L.id
           /\ IsSet(S.issueCycle) /\ IsSet(L.issueCycle)
           /\ S.issueCycle[1] < L.issueCycle[1]
           /\ ~writtenBetween(S.src1, S.issueCycle[1], L.issueCycle[1])
           => IsSet(S.writeCycle) /\ Leq(S.writeCycle, L.issueCycle)

\* C6 witness: the load that follows a store to the same address was held back
\* at issue for some cycles and issued in the cycle the store retired
C6_Witness ==
  \E ks, kl \in Insts :
    LET S == instructions[ks]
        L == instructions[kl]
    IN  /\ opTypeOf(S) = "STORE" /\ opTypeOf(L) = "LOAD"
        /\ S.src1 = L.src1 /\ S.immediate = L.immediate
        /\ L.pcAddress = S.pcAddress + 4
        /\ L.id = S.id + 1
        /\ IsSet(L.issueCycle)
        /\ S.issueCycle[1] + 1 < L.issueCycle[1]
        /\ S.writeCycle = L.issueCycle

-----------------------------------------------------------------------------
(* Branch stall *)

\* instruction i is a branch that has issued and has not finished executing
unresolvedBranch(i) ==
  opTypeOf(i) = "BRANCH" /\ IsSet(i.issueCycle) /\ ~IsSet(i.execEndCycle)

\* the step gives instruction k of its result an issueCycle
issuedByStep(k) ==
  /\ IsSet(instructions'[k].issueCycle)
  /\ k <= Len(instructions) => ~IsSet(instructions[k].issueCycle)

\* C7: for every dynamic BRANCH B no other dynamic instruction has an issueCycle
\* after B's issueCycle and before B's execEndCycle (or after B's issueCycle at
\* all, while B has no execEndCycle); and a step that returns a state in which an
\* issued branch still has no execEndCycle has issued no instruction other than
\* that branch.
C7_BranchStall ==
  /\ [](\A kb, ki \in Insts :
          LET B == instructions[kb]
              I == instructions[ki]
          IN  /\ kb # ki
              /\ opTypeOf(B) = "BRANCH"
              /\ IsSet(B.issueCycle) /\ IsSet(I.issueCycle)
              /\ B.issueCycle[1] < I.issueCycle[1]
              => IsSet(B.execEndCycle) /\ Leq(B.execEndCycle, I.issueCycle))
  /\ [][\A kb \in 1..Len(instructions') :
          unresolvedBranch(instructions'[kb]) =>
            \A k \in 1..Len(instructions') : issuedByStep(k) => k = kb]_vars

\* C7 witness: a branch took more than one cycle from issue to the end of its
\* execution, an instruction was waiting behind it the whole time and issued in
\* the cycle the branch finished executing
C7_Witness ==
  \E kb, ki \in Insts :
    LET B == instructions[kb]
        I == instructions[ki]
    IN  /\ opTypeOf(B) = "BRANCH"
        /\ IsSet(B.execEndCycle)
        /\ B.issueCycle[1] + 1 < B.execEndCycle[1]
        /\ I.issueCycle = B.execEndCycle

\* the instructions that were issued in the current cycle
issuedThisCycle == {k \in Insts : instructions[k].issueCycle = Some(cycle)}

\* C8 as stated: if the branch-stall flag is true in the state a step returns,
\* no instruction has its issueCycle equal to the current cycle.
C8_StallMeansNoIssue == branchStall => issuedThisCycle = {}

\* C8: if the branch-stall flag is true in the state a step returns, the only
\* instruction that can have its issueCycle equal to the current cycle is the
\* BRANCH whose issue in that step set the flag: at most one instruction, a
\* branch that has not finished executing.
C8_StallMeansNoIssueButTheBranch ==
  branchStall =>
    /\ Cardinality(issuedThisCycle) <= 1
    /\ \A k \in issuedThisCycle : unresolvedBranch(instructions[k])

\* C8 witness: the flag is true in the state a step returned, an instruction is
\* waiting at the PC and none was issued in that step
C8_Witness ==
  /\ branchStall
  /\ cycle > 0
  /\ issuedThisCycle = {}
  /\ \E k \in Insts : instructions[k].pcAddress = pc /\ ~IsSet(instructions[k].issueCycle)

-----------------------------------------------------------------------------
(* Stores and branches stay off the CDB *)

\* station x holds the same instruction before and after the step
sameBinding(x) ==
  /\ reservationStations[x].busy
  /\ reservationStations'[x].instId = reservationStations[x].instId

\* C9: a station bound to a STORE or BRANCH never holds a result to broadcast;
\* the station a step chooses as CDB producer was busy with an instruction that
\* is neither a STORE nor a BRANCH and the CDB carries that station's result; a
\* register value changes only to the CDB value of the step, in a register that
\* carried the CDB tag, and an operand value of a station that keeps its
\* instruction changes only to the CDB value, in a slot that carried the CDB tag.
C9_StoreAndBranchStayOffTheCDB ==
  /\ [](\A x \in Stations :
          reservationStations[x].busy
            /\ ~usesCDB(instructions[boundInst(reservationStations[x])])
          => reservationStations[x].result = Null)
  /\ [][/\ cdb' # Null =>
             LET x == stationNamed(reservationStations, cdb'[1].tag)
             IN  /\ x # 0
                 /\ reservationStations[x].busy
                 /\ usesCDB(instructions[boundInst(reservationStations[x])])
                 /\ reservationStations[x].result = Some(cdb'[1].value)
        /\ \A n \in DOMAIN registers :
             registers'[n].value # registers[n].value =>
               /\ cdb' # Null
               /\ registers[n].qi = Some(cdb'[1].tag)
               /\ registers'[n].value = cdb'[1].value
        /\ \A x \in Stations : \A sl \in {"j", "k"} :
             sameBinding(x)
               /\ slotValue(reservationStations'[x], sl)
                    # slotValue(reservationStations[x], sl)
             => /\ cdb' # Null
                /\ slotTag(reservationStations[x], sl) = Some(cdb'[1].tag)
                /\ slotValue(reservationStations'[x], sl) = Some(cdb'[1].value)]_vars

\* C9 witness: the step that returned this state retired a store or a branch and
\* broadcast the result of another instruction, which a register took
C9_Witness ==
  /\ cdb # Null
  /\ \E k \in Insts :
       ~usesCDB(instructions[k]) /\ instructions[k].writeCycle = Some(cycle)
  /\ \E n \in DOMAIN registers :
       registers[n].value = cdb[1].value /\ registers[n].value # Zero

-----------------------------------------------------------------------------
(* Termination *)

\* C10: in every state a step returns, the finished flag is true exactly when
\* every dynamic instruction has a writeCycle and no dynamic instruction has the
\* current PC as its pcAddress.
C10_FinishedIffAllWrittenAndPcOffCode ==
  cycle > 0 =>
    (isFinished <=>
       /\ \A k \in Insts : IsSet(instructions[k].writeCycle)
       /\ \A k \in Insts : instructions[k].pcAddress # pc)

\* C10 witness: a program that went round a loop has finished: a backward
\* branch was taken, the instructions at its target ran again, and the flag was
\* still false in the cycle the branch resolved
C10_Witness ==
  /\ isFinished
  /\ \E k1, k2 \in Insts :
       /\ k1 # k2
       /\ instructions[k1].pcAddress = instructions[k2].pcAddress
       /\ IsSet(instructions[k2].writeCycle)
  /\ \E k \in 1..Len(log) : log[k].kind = "branchTaken"

-----------------------------------------------------------------------------
(* The step as a function *)

\* C11: a step on a state whose finished flag is set returns that state, equal
\* in every field, and so the flag stays set once it is set.
C11_FinishedStepIsNoOp ==
  /\ [](isFinished => nextCycle(state, config, labels) = state)
  /\ [][isFinished => isFinished' /\ state' = state]_vars

\* C11 witness: a run that issued, executed and logged has finished
C11_Witness ==
  /\ isFinished
  /\ Len(log) > 2
  /\ \E k \in Insts : IsSet(instructions[k].writeCycle) /\ instructions[k].writeCycle[1] < cycle

C13_PriorStateUnchanged ==
  [][cycle' # cycle =>
       /\ prior' = state
       /\ nextCycle(prior', config, labels) = state']_vars

\* C13 witness: the caller's prior state reads as a mix: its cycle is the old
\* one while one of its instructions carries a timestamp of the new cycle
C13_Witness ==
  /\ prior.cycle + 1 = cycle
  /\ \E k \in 1..Len(prior.instructions) :
       prior.instructions[k].issueCycle = Some(cycle)

-----------------------------------------------------------------------------
(* The loop program *)

\* the run is the one of program prog from R1 = 0 and R2 = 0
runsFromZero(prog) ==
  code = prog /\ initialRegisters["R1"] = Zero /\ initialRegisters["R2"] = Zero

instancesAt(p) == Cardinality({k \in Insts : instructions[k].pcAddress = p})

takenBranches == {k \in 1..Len(log) : log[k].kind = "branchTaken"}

\* the values the instances of the instruction at address p wrote back, in
\* the order of the instruction list
RECURSIVE writtenValuesFrom(_, _)
writtenValuesFrom(p, k) ==
  IF k > Len(instructions) THEN <<>>
  ELSE IF instructions[k].pcAddress = p /\ IsSet(instructions[k].writeCycle)
  THEN LET b == CHOOSE b \in 1..Len(log) :
                  log[b].kind = "broadcast" /\ log[b].cycle = instructions[k].writeCycle[1]
       IN  <<log[b].value>> \o writtenValuesFrom(p, k + 1)
  ELSE writtenValuesFrom(p, k + 1)

\* C14: the run of the loop program from R1 = 0, R2 = 0 finishes (before the
\* last cycle explored), never takes the BNE more than twice, and when it has
\* finished the BNE was taken exactly twice, the SUBI wrote R1 = 16, 8 and 0 in
\* turn, and the instruction list holds one instance of each DADDI and three of
\* each of the five instructions of the loop body.
C14_LoopProgramRunsThreeTimes ==
  runsFromZero(SampleLoop) =>
    /\ cycle = MaxCycle => isFinished
    /\ Cardinality(takenBranches) <= 2
    /\ isFinished =>
         /\ Cardinality(takenBranches) = 2
         /\ writtenValuesFrom(20, 1) = <<Num(16), Num(8), Num(0)>>
         /\ instancesAt(0) = 1 /\ instancesAt(4) = 1
         /\ \A p \in {8, 12, 16, 20, 24} : instancesAt(p) = 3
         /\ Len(instructions) = 17
         /\ \A k \in Insts : IsSet(instructions[k].writeCycle)

\* C14 witness: the loop program has finished
C14_Witness == runsFromZero(SampleLoop) /\ isFinished /\ pc = 28

-----------------------------------------------------------------------------
(* Loop re-entry *)

\* the step appends a new dynamic instance to the instruction list
appendsInstance == Len(instructions') > Len(instructions)

\* C15 as stated: a step appends a new instance of the instruction at a PC
\* only when no instance at that PC is un-issued and an earlier instance at that
\* PC is retired (its writeCycle is set, at the latest by that step).
C15_CloneOnlyOfRetired ==
  [][appendsInstance =>
       LET new == instructions'[Len(instructions')]
           earlier == {k \in Insts : instructions[k].pcAddress = new.pcAddress}
       IN  /\ \A k \in earlier : IsSet(instructions[k].issueCycle)
           /\ \E k \in earlier : IsSet(instructions'[k].writeCycle)]_vars

\* C15 witness: a second instance of an instruction is in the list while the
\* only earlier instance at its PC is issued and has not written back
C15_Witness ==
  \E k2 \in Insts :
    LET earlier == {k \in Insts : k < k2 /\ instructions[k].pcAddress = instructions[k2].pcAddress}
    IN  /\ Cardinality(earlier) = 1
        /\ \A k \in earlier :
             IsSet(instructions[k].issueCycle) /\ ~IsSet(instructions[k].writeCycle)

-----------------------------------------------------------------------------
(* Termination *)

\* no instruction of the run is a branch
straightLine == \A k \in Insts : opTypeOf(instructions[k]) # "BRANCH"

everyInstructionWritten == \A k \in Insts : IsSet(instructions[k].writeCycle)

\* C16: under repeated stepping the run of a program without branches reaches
\* a state in which every instruction has a writeCycle and the finished flag is
\* set.
C16_StraightLineTerminates ==
  straightLine ~> (isFinished /\ everyInstructionWritten)

\* C16 witness: a program without branches has finished after an instruction
\* waited at issue, one waited for an operand and two results were ready to
\* broadcast in one cycle
C16_Witness ==
  /\ straightLine
  /\ isFinished
  /\ \E k \in Insts : instructions[k].issueCycle[1] > k
  /\ \E k \in Insts : instructions[k].execStartCycle[1] > instructions[k].issueCycle[1] + 1
  /\ \E k \in Insts : usesCDB(instructions[k])
                        /\ instructions[k].writeCycle[1] > instructions[k].execEndCycle[1] + 1

\* every reservation station is idle
allIdle == \A x \in Stations : ~reservationStations[x].busy

\* the PC is past the last instruction of the program
pcPastEnd == pc >= 4 * Len(parseAssembly(code).instructions)

\* C17 as stated: in every state a step returns in which every station is
\* idle, the branch-stall flag is clear and the PC is past the program end, the
\* finished flag is set.
C17_IdlePastEndIsFinished ==
  cycle > 0 /\ allIdle /\ ~branchStall /\ pcPastEnd => isFinished

\* C17 witness: a run idles past the program end with the flag clear, cycle
\* after cycle, behind a taken forward branch that jumped over an instruction
C17_Witness ==
  /\ allIdle /\ ~branchStall /\ pcPastEnd /\ ~isFinished
  /\ \E k \in Insts : ~IsSet(instructions[k].issueCycle)
  /\ \E b \in Insts : /\ opTypeOf(instructions[b]) = "BRANCH"
                      /\ IsSet(instructions[b].writeCycle)
                      /\ instructions[b].writeCycle[1] + 5 < cycle

-----------------------------------------------------------------------------
(* The cache *)

\* C18 as stated: the number of blocks in the cache never exceeds
\* cacheSize / blockSize.
C18_CacheWithinCapacity ==
  Len(cache) * config.cache.blockSize <= config.cache.cacheSize

\* C18 witness: with a cacheSize that is not a multiple of the blockSize the
\* cache holds more blocks than cacheSize / blockSize
C18_Witness ==
  /\ config.cache.cacheSize % config.cache.blockSize # 0
  /\ Len(cache) * config.cache.blockSize > config.cache.cacheSize
  /\ \A b1, b2 \in 1..Len(cache) : b1 # b2 => cache[b1].tag # cache[b2].tag

\* the loads that start executing in the step: the ones that access the cache
startingLoads ==
  {k \in Insts : /\ opTypeOf(instructions[k]) = "LOAD"
                 /\ ~IsSet(instructions[k].execStartCycle)
                 /\ IsSet(instructions'[k].execStartCycle)}

resident(blocks) == {blocks[b] : b \in 1..Len(blocks)}

cacheMisses == {k \in 1..Len(log) : log[k].kind = "cacheMiss"}

\* the block of the address the load instruction k is bound to access
accessedBlock(k) ==
  blockIndex(reservationStations[stationOf(reservationStations, instructions[k].id)].a[1],
             config.cache.blockSize)

\* C19: the resident blocks have distinct tags and distinct lastAccess cycles;
\* a step makes at most one cache access and changes the cache only by it: on
\* a hit only the hit block's lastAccess changes, to the current cycle; on a miss
\* with room left the new block is appended; on a miss with the cache full
\* exactly one block is evicted, one with the smallest lastAccess, every other
\* block is kept as it is and the new block comes in with lastAccess equal to
\* the current cycle.  With blockSize 4 and cacheSize 8 the three loads to 0, 4
\* and 8 all miss and the third evicts the block of address 0.
C19_LeastRecentlyUsedEviction ==
  /\ [](/\ \A b1, b2 \in 1..Len(cache) :
             b1 # b2 => /\ cache[b1].tag # cache[b2].tag
                        /\ cache[b1].lastAccess # cache[b2].lastAccess
        /\ ( /\ code = ThreeLoads
             /\ config.cache = [enabled |-> TRUE, blockSize |-> 4, cacheSize |-> 8,
                                missPenalty |-> config.cache.missPenalty]
             /\ \A k \in Insts : IsSet(instructions[k].execStartCycle) )
           => /\ Cardinality(cacheMisses) = 3
              /\ {cache[b].tag : b \in 1..Len(cache)} = {1, 2})
  /\ [][config.cache.enabled =>
          /\ Cardinality(startingLoads) <= 1
          /\ startingLoads = {} => cache' = cache
          /\ \A k \in startingLoads :
               LET tag == accessedBlock(k)
                   new == [tag |-> tag, valid |-> TRUE, lastAccess |-> cycle']
               IN  IF \E b \in 1..Len(cache) : cache[b].tag = tag
                   THEN cache' = [b \in 1..Len(cache) |->
                                    IF cache[b].tag = tag
                                    THEN [cache[b] EXCEPT !.lastAccess = cycle']
                                    ELSE cache[b]]
                   ELSE IF Len(cache) * config.cache.blockSize < config.cache.cacheSize
                   THEN cache' = Append(cache, new)
                   ELSE /\ Len(cache') = Len(cache)
                        /\ \E e \in 1..Len(cache) :
                             /\ \A b \in 1..Len(cache) :
                                  cache[e].lastAccess <= cache[b].lastAccess
                             /\ resident(cache') = (resident(cache) \ {cache[e]}) \cup {new}]_vars

\* C19 witness: the three loads to 0, 4 and 8 have run with blockSize 4 and
\* cacheSize 8: three misses, and the blocks of addresses 4 and 8 are resident
C19_Witness ==
  /\ code = ThreeLoads
  /\ config.cache.blockSize = 4 /\ config.cache.cacheSize = 8
  /\ Cardinality(cacheMisses) = 3
  /\ {cache[b].tag : b \in 1..Len(cache)} = {1, 2}

\* the cycles the execution of instruction k took, first and last included
executionCycles(k) ==
  instructions[k].execEndCycle[1] - instructions[k].execStartCycle[1] + 1

finishedLoads ==
  {k \in Insts : /\ opTypeOf(instructions[k]) = "LOAD"
                 /\ IsSet(instructions[k].execEndCycle)}

\* C20: with the cache disabled the cache holds no block, the log holds no
\* cache-miss entry and no step appends one, and the execution of every load
\* takes exactly latencies[LOAD] cycles
C20_DisabledCacheIsTransparent ==
  /\ [](~config.cache.enabled =>
          /\ cache = <<>>
          /\ cacheMisses = {}
          /\ \A k \in finishedLoads : executionCycles(k) = config.latencies["LOAD"])
  /\ [][~config.cache.enabled =>
          \A k \in 1..Len(log') : k > Len(log) => log'[k].kind # "cacheMiss"]_vars

\* C20 witness: with the cache disabled two loads have finished executing
C20_Witness ==
  /\ ~config.cache.enabled
  /\ Cardinality(finishedLoads) >= 2
  /\ cache = <<>>

-----------------------------------------------------------------------------
(* Latency accounting *)

finishedExecutions ==
  {k \in Insts : IsSet(instructions[k].execStartCycle) /\ IsSet(instructions[k].execEndCycle)}

\* the load instruction k missed: the log holds a miss of the cycle it started in
missed(k) ==
  \E e \in cacheMisses : log[e].cycle = instructions[k].execStartCycle[1]

\* the load instruction k, bound to a station, finds its block resident
findsBlock(k) ==
  \/ ~config.cache.enabled
  \/ \E b \in 1..Len(cache) : cache[b].tag = accessedBlock(k)

\* C21: an instruction whose execution has started and ended took its configured
\* latency, latencies[LOAD] plus the miss penalty for a load that missed and
\* latencies[LOAD] for a load that hit, first and last cycle included; the cache
\* is consulted once per load, in the step that sets its execStartCycle: that
\* step logs a miss exactly when the block was not resident, and a step that
\* starts no load leaves the cache and the miss entries as they were.
C21_LatencyAccounting ==
  /\ [](\A k \in finishedExecutions :
          executionCycles(k) =
            IF opTypeOf(instructions[k]) = "LOAD"
            THEN config.latencies["LOAD"]
                   + (IF missed(k) THEN config.cache.missPenalty ELSE 0)
            ELSE config.latencies[opTypeOf(instructions[k])])
  /\ [][/\ startingLoads = {} => cache' = cache /\ cacheMisses' = cacheMisses
        /\ \A k \in startingLoads :
             /\ instructions'[k].execStartCycle = Some(cycle')
             /\ IF findsBlock(k)
                THEN cacheMisses' = cacheMisses
                ELSE /\ cacheMisses' = cacheMisses \cup {Len(log')}
                     /\ Len(log') > Len(log)
                     /\ log'[Len(log')].cycle = cycle']_vars

\* C21 witness: a load that missed, a load that hit and an instruction of
\* another class have all finished executing
C21_Witness ==
  /\ \E k \in finishedLoads : missed(k)
  /\ \E k \in finishedLoads : config.cache.enabled /\ ~missed(k)
  /\ \E k \in finishedExecutions : opTypeOf(instructions[k]) # "LOAD"

-----------------------------------------------------------------------------
(* Write-back arbitration *)

\* C22: when several stations are ready to write in the same step, the CDB
\* producer of the step is the one bound to the smallest instruction identity,
\* wherever the stations stand in the station list.
C22_EarliestIssuedWritesFirst ==
  [][cycle' # cycle /\ readyStations # {} =>
       \E x \in readyStations :
         /\ cdb' # Null
         /\ reservationStations[x].id = cdb'[1].tag
         /\ \A y \in readyStations :
              reservationStations[x].instId[1] <= reservationStations[y].instId[1]]_vars

\* C22 witness: two stations are ready to write and the one that stands first in
\* the station list holds the later instruction
C22_Witness ==
  \E x, y \in readyStations :
    /\ x < y
    /\ reservationStations[x].instId[1] > reservationStations[y].instId[1]

-----------------------------------------------------------------------------
(* Division by zero *)

\* station x holds a DIV-class instruction whose operands are present, the divisor 0
dividesByZero(x) ==
  /\ x \in Stations
  /\ reservationStations[x].busy
  /\ boundInst(reservationStations[x]) # 0
  /\ opTypeOf(instructions[boundInst(reservationStations[x])]) = "DIV"
  /\ operandsReady(reservationStations[x])
  /\ OrZero(reservationStations[x].vk) = Zero

\* ... and its execution has started
dividingByZero(x) ==
  /\ dividesByZero(x)
  /\ IsSet(instructions[boundInst(reservationStations[x])].execStartCycle)

\* the indexes a station list can have under the configurations explored
StationSlots ==
  1..(CHOOSE n \in {Len(buildStations(c, 1)) : c \in Configs} :
        \A c \in Configs : Len(buildStations(c, 1)) <= n)

\* C23: a DIV-class instruction with divisor 0 starts executing in the step
\* after its operands are present, ends after latencies[DIV] cycles with result
\* 0 and is then ready to write; the step that broadcasts for it puts 0 on the
\* CDB, sets its writeCycle, releases the station and gives 0 to every waiting
\* operand slot and register; and in a program that runs to its end the
\* station is always released.
C23_DivisionByZeroYieldsZero ==
  /\ [](\A x \in Stations :
          dividingByZero(x) =>
            LET k == boundInst(reservationStations[x])
            IN  IsSet(instructions[k].execEndCycle) =>
                  /\ executionCycles(k) = config.latencies["DIV"]
                  /\ reservationStations[x].result = Some(Zero)
                  /\ isReadyToWrite(reservationStations[x]))
  /\ [][\A x \in Stations :
          /\ dividesByZero(x) /\ cycle' # cycle =>
               IsSet(instructions'[boundInst(reservationStations[x])].execStartCycle)
          /\ dividingByZero(x) /\ cdb' # Null /\ cdb'[1].tag = reservationStations[x].id =>
               /\ cdb'[1].value = Zero
               /\ instructions'[boundInst(reservationStations[x])].writeCycle = Some(cycle')
               /\ ~sameBinding(x)
               /\ \A y \in Stations :
                    /\ reservationStations[y].busy
                         /\ reservationStations[y].qj = Some(cdb'[1].tag)
                       => /\ reservationStations'[y].vj = Some(Zero)
                          /\ reservationStations'[y].qj = Null
                    /\ reservationStations[y].busy
                         /\ reservationStations[y].qk = Some(cdb'[1].tag)
                       => /\ reservationStations'[y].vk = Some(Zero)
                          /\ reservationStations'[y].qk = Null
               /\ \A n \in DOMAIN registers :
                    registers[n].qi = Some(cdb'[1].tag) => registers'[n].value = Zero]_vars
  /\ \A x \in StationSlots : (straightLine /\ dividingByZero(x)) ~> ~dividingByZero(x)

\* C23 witness: a division by zero has been broadcast and an instruction that
\* waited for its result has taken 0 as operand and finished executing
C23_Witness ==
  \E k, k2 \in Insts :
    /\ opTypeOf(instructions[k]) = "DIV"
    /\ IsSet(instructions[k].writeCycle)
    /\ \E e \in 1..Len(log) :
         /\ log[e].kind = "broadcast"
         /\ log[e].cycle = instructions[k].writeCycle[1]
         /\ log[e].value = Zero
    /\ instructions[k].dest \in {instructions[k2].src1, instructions[k2].src2}
    /\ instructions[k2].issueCycle[1] < instructions[k].writeCycle[1]
    /\ instructions[k].issueCycle[1] < instructions[k2].issueCycle[1]
    /\ instructions[k2].execStartCycle = instructions[k].writeCycle
    /\ IsSet(instructions[k2].execEndCycle)

-----------------------------------------------------------------------------
(* Runtime anomalies and the log *)

\* the instructions whose execution ends in the step
endingExecutions ==
  {k \in Insts : ~IsSet(instructions[k].execEndCycle) /\ IsSet(instructions'[k].execEndCycle)}

\* the station that holds instruction k before the step
stationHolding(k) == reservationStations[stationOf(reservationStations, instructions[k].id)]

\* the step executes a division whose divisor is 0
dividesByZeroInStep ==
  \E k \in endingExecutions :
    /\ opTypeOf(instructions[k]) = "DIV"
    /\ OrZero(stationHolding(k).vk) = Zero

\* the step resolves a branch as taken whose label is not in the label map
takesUndefinedLabelInStep ==
  \E k \in endingExecutions :
    /\ opTypeOf(instructions[k]) = "BRANCH"
    /\ branchTaken(instructions[k].op, OrZero(stationHolding(k).vj),
                   OrZero(stationHolding(k).vk))
    /\ instructions[k].src2 \notin DOMAIN labels

\* the log entries of the step that report none of the regular events
anomalyEntriesOfStep ==
  {e \in (Len(log) + 1)..Len(log') :
     log'[e].kind \notin {"broadcast", "cacheMiss", "branchTaken", "completed"}}

\* C24: every step in which a division by zero is executed, and every step in
\* which a taken branch names a label that is not in the label map, appends at
\* least one log entry that describes the anomaly.
C24_AnomaliesAreLogged ==
  [][dividesByZeroInStep \/ takesUndefinedLabelInStep => anomalyEntriesOfStep # {}]_vars

\* C24 witness: the step that returned this state executed a division by zero,
\* or resolved as taken a branch to an undefined label, and the log still holds
\* nothing but its first entry
C24_Witness ==
  /\ Len(log) = 1
  /\ \E k \in Insts :
       /\ instructions[k].execEndCycle = Some(cycle)
       /\ \/ /\ opTypeOf(instructions[k]) = "DIV"
             /\ stationHolding(k).result = Some(Zero)
             /\ OrZero(stationHolding(k).vk) = Zero
          \/ /\ opTypeOf(instructions[k]) = "BRANCH"
             /\ instructions[k].src2 \notin DOMAIN labels
             /\ registers["R1"].value # registers["R2"].value

-----------------------------------------------------------------------------
(* Unrecognized opcodes *)

\* the opcodes getOpType names
RecognizedOps ==
  LoadOps \cup StoreOps \cup FpAddOps \cup FpSubOps \cup MultOps \cup DivOps
    \cup IntegerOps \cup BranchOps

\* the source holds a line whose opcode is not a recognized one
hasUnrecognizedOpcode ==
  \E l \in 1..Len(code) : code[l].op # "" /\ code[l].op \notin RecognizedOps

\* C25: a source text with a line whose opcode is not recognized yields no
\* instruction list, and no instruction with such an opcode is ever issued or
\* executed.
C25_UnrecognizedOpcodeIsRejected ==
  /\ hasUnrecognizedOpcode => instructions = <<>>
  /\ \A k \in Insts :
       instructions[k].op \notin RecognizedOps =>
         ~IsSet(instructions[k].issueCycle) /\ ~IsSet(instructions[k].execStartCycle)

\* C25 witness: an instruction with an unrecognized opcode has been issued to an
\* INTEGER station, executed and written back, and a later instruction has
\* taken its result as operand
C25_Witness ==
  \E k, k2 \in Insts :
    /\ instructions[k].op \notin RecognizedOps
    /\ IsSet(instructions[k].writeCycle)
    /\ instructions[k2].src1 = instructions[k].dest
    /\ instructions[k2].execStartCycle = instructions[k].writeCycle
    /\ registers[instructions[k].dest].value = Minus(defaultRegs["F2"], Zero)

-----------------------------------------------------------------------------
(* Operand slots *)

\* the slot holds a value and no tag, or a tag and no value
holdsExactlyOne(r, sl) == (slotValue(r, sl) # Null) # (slotTag(r, sl) # Null)

holdsNeither(r, sl) == slotValue(r, sl) = Null /\ slotTag(r, sl) = Null

\* the instruction names an operand for the slot
namesOperand(i, sl) ==
  IF sl = "j"
  THEN IF opTypeOf(i) = "BRANCH" THEN i.dest # "" ELSE i.src1 # ""
  ELSE IF opTypeOf(i) = "BRANCH" THEN i.src1 # "" ELSE opTypeOf(i) # "LOAD"

-----------------------------------------------------------------------------
(* Structural hazards *)

\* the instructions of station class type that are issued and not yet written
inFlight(type) ==
  {k \in Insts : /\ getRSType(opTypeOf(instructions[k])) = type
                 /\ IsSet(instructions[k].issueCycle)
                 /\ ~IsSet(instructions[k].writeCycle)}

\* station x is idle when the issue phase of the step runs: it was idle before
\* the step, or the instruction it held is written in this step
idleAtIssue(x) ==
  \/ ~reservationStations[x].busy
  \/ LET k == boundInst(reservationStations[x])
     IN  k # 0 /\ ~IsSet(instructions[k].writeCycle)
               /\ instructions'[k].writeCycle = Some(cycle')

\* C27: an instruction is issued only into a station of its class that is idle
\* at the issue phase of the step, so no class has more instructions issued and
\* unwritten than it has stations; with two MULT stations and four independent
\* multiplies in a row the third is issued at least one cycle after the first
\* ended execution and the fourth at least one cycle after the second did.
C27_StructuralHazard ==
  /\ [](/\ \A t \in DOMAIN config.rsSizes : Cardinality(inFlight(t)) <= config.rsSizes[t]
        /\ code = FourMultiplies /\ config.rsSizes["MULT"] = 2 =>
             \A k \in {3, 4} :
               IsSet(instructions[k].issueCycle) =>
                 /\ IsSet(instructions[k - 2].execEndCycle)
                 /\ instructions[k].issueCycle[1] >= instructions[k - 2].execEndCycle[1] + 1)
  /\ [][\A k \in 1..Len(instructions') :
          issuedByStep(k) =>
            LET x == stationOf(reservationStations', instructions'[k].id)
            IN  /\ x # 0
                /\ reservationStations'[x].type = getRSType(opTypeOf(instructions'[k]))
                /\ idleAtIssue(x)]_vars

\* C27 witness: with two MULT stations the four multiplies have all been
\* issued, the third in the cycle the first wrote back and left its station
C27_Witness ==
  /\ code = FourMultiplies /\ config.rsSizes["MULT"] = 2
  /\ \A k \in Insts : IsSet(instructions[k].issueCycle)
  /\ instructions[3].issueCycle = instructions[1].writeCycle
  /\ instructions[3].issueCycle[1] > 3
  /\ instructions[4].issueCycle = instructions[2].writeCycle

-----------------------------------------------------------------------------
(* Editing a register before the run *)

handleUpdateRegisterAnytime(s, name, value) ==
  [s EXCEPT !.registers =
     [m \in DOMAIN @ \cup {name} |->
        IF m # name THEN @[m]
        ELSE IF name \in DOMAIN @ THEN [@[name] EXCEPT !.value = value]
        ELSE [value |-> value]]]

\* handleUpdateRegister: { ...prev, registers: { ...prev.registers,
\* [name]: { ...prev.registers[name], value } } } when the cycle is 0
handleUpdateRegister(s, name, value) ==
  IF s.cycle = 0
  THEN [s EXCEPT !.registers =
          [m \in DOMAIN @ \cup {name} |->
             IF m # name THEN @[m]
             ELSE IF name \in DOMAIN @ THEN [@[name] EXCEPT !.value = value]
             ELSE [value |-> value]]]
  ELSE s

\* the registers and values the edits are drawn from
EditedNames == {"R1", "F0"}

EditedValues == {Zero, Num(8)}

\* one edit of a register value in the register table
UpdateRegister ==
  /\ \E name \in EditedNames, value \in EditedValues :
       \E t \in {handleUpdateRegister(state, name, value)} :
         /\ cycle' = t.cycle
         /\ pc' = t.pc
         /\ instructions' = t.instructions
         /\ reservationStations' = t.reservationStations
         /\ registers' = t.registers
         /\ memory' = t.memory
         /\ cache' = t.cache
         /\ cdb' = t.cdb
         /\ log' = t.log
         /\ isFinished' = t.isFinished
         /\ branchStall' = t.branchStall
         /\ prior' = IF cycle = 0 THEN t ELSE prior
         /\ initialRegisters' =
              IF cycle = 0 THEN [n \in DOMAIN initialRegisters |-> t.registers[n].value]
              ELSE initialRegisters
  /\ UNCHANGED <<config, labels, code, producers>>

\* the sample programs, with register edits between the steps
EditInit == Init /\ code \in SamplePrograms

EditNext == Step \/ UpdateRegister

EditSpec == EditInit /\ [][EditNext]_vars

\* C28: an edit of a register with the cycle past 0 returns the state as it is;
\* with the cycle 0 it returns the state with the named register holding the
\* new value, its name and tag and every other register and field as before;
\* and registers change without the cycle advancing only at cycle 0, in one
\* register's value.
C28_RegisterEditOnlyAtCycleZero ==
  /\ [](\A name \in EditedNames, value \in EditedValues :
          LET t == handleUpdateRegister(state, name, value)
          IN  IF cycle > 0 THEN t = state
              ELSE /\ t.registers[name] = [registers[name] EXCEPT !.value = value]
                   /\ DOMAIN t.registers = DOMAIN registers
                   /\ \A m \in DOMAIN registers \ {name} : t.registers[m] = registers[m]
                   /\ [t EXCEPT !.registers = registers] = state)
  /\ [][cycle' = cycle /\ registers' # registers =>
          /\ cycle = 0
          /\ \E name \in DOMAIN registers :
               /\ registers'[name].value # registers[name].value
               /\ registers' = [registers EXCEPT ![name].value = registers'[name].value]
          /\ [state EXCEPT !.registers = registers'] = state']_vars

\* C28 witness: a run that was started after R1 was set to 8 and F0 left at 0,
\* values no initial register file holds together, is past its first cycle with
\* an instruction written, where edits no longer change anything
C28_Witness ==
  /\ initialRegisters["R1"] = Num(8) /\ initialRegisters["F0"] = Zero
  /\ cycle > 1
  /\ \E k \in Insts : IsSet(instructions[k].writeCycle)

-----------------------------------------------------------------------------
(* Initialization and the default configuration *)

\* the sample programs under the configuration the application starts with
DefaultInit == InitFrom(SamplePrograms, {DEFAULT_CONFIG}, RegisterFiles)

DefaultSpec == DefaultInit /\ [][Next]_vars

stationsOfClass(type) == {x \in Stations : reservationStations[x].type = type}

\* the position of a class in ADD, MULT, LOAD, STORE, INTEGER
classRank(type) == CHOOSE t \in 1..Len(RSTypes) : RSTypes[t] = type

\* the state holds what initialize is to build: per class, in the order of the
\* classes, rsSizes[class] idle stations; untagged registers; empty memory and
\* cache; PC 0
initializedAsConfigured ==
  /\ \A type \in DOMAIN config.rsSizes :
       Cardinality(stationsOfClass(type)) = config.rsSizes[type]
  /\ \A x \in Stations :
       /\ reservationStations[x].type \in DOMAIN config.rsSizes
       /\ ~reservationStations[x].busy
       /\ reservationStations[x].op = Null /\ reservationStations[x].instId = Null
       /\ reservationStations[x].a = Null /\ reservationStations[x].result = Null
       /\ reservationStations[x].timeLeft = 0
       /\ holdsNeither(reservationStations[x], "j")
       /\ holdsNeither(reservationStations[x], "k")
  /\ \A x, y \in Stations :
       x < y => classRank(reservationStations[x].type) <= classRank(reservationStations[y].type)
  /\ \A n \in DOMAIN registers : registers[n].qi = Null
  /\ memory = <<>> /\ cache = <<>> /\ pc = 0

\* C29: at cycle 0 the state is as initialize is to build it from the
\* configuration; with the default configuration each of the five classes,
\* INTEGER included, has at least one station, and the first step of the loop
\* sample issues its first instruction.
C29_InitializeBuildsEveryClass ==
  /\ cycle = 0 => initializedAsConfigured
  /\ config = DEFAULT_CONFIG =>
       /\ \A t \in 1..Len(RSTypes) : stationsOfClass(RSTypes[t]) # {}
       /\ code = SampleLoop /\ cycle >= 1 => instructions[1].issueCycle = Some(1)

\* C29 witness: under the default configuration the loop sample has been
\* stepped twice and its first instruction, a DADDI, is still not issued: the
\* station list has no INTEGER station
C29_Witness ==
  /\ config = DEFAULT_CONFIG
  /\ code = SampleLoop
  /\ cycle >= 2
  /\ ~IsSet(instructions[1].issueCycle)
  /\ stationsOfClass("INTEGER") = {}
  /\ Len(reservationStations) = 11

-----------------------------------------------------------------------------
(* Retirement of stores and branches *)

\* the stores and branches whose execution ends in the step
retiringInStep ==
  {k \in endingExecutions : opTypeOf(instructions[k]) \in {"STORE", "BRANCH"}}

\* station x after the step is idle, every field reset
releasedByStep(x) ==
  reservationStations'[x] =
    [reservationStations[x] EXCEPT !.busy = FALSE, !.op = Null, !.vj = Null,
       !.vk = Null, !.qj = Null, !.qk = Null, !.a = Null, !.instId = Null,
       !.timeLeft = 0, !.result = Null]

\* station x after the step holds an instruction the step issued
retakenByStep(x) ==
  /\ reservationStations'[x].busy
  /\ reservationStations'[x].instId # reservationStations[x].instId
  /\ \E k \in 1..Len(instructions') :
       /\ Some(instructions'[k].id) = reservationStations'[x].instId
       /\ issuedByStep(k)

\* the second operand of station x as the execute phase of the step finds it:
\* the value it held, or the value the step's broadcast gave it
operandKAtExecute(x) ==
  IF reservationStations[x].vk # Null THEN reservationStations[x].vk[1]
  ELSE cdb'[1].value

\* the store of station x is in memory after the step
storedByStep(x) ==
  LET addr == OrZero(reservationStations[x].a)
  IN  addr \in DOMAIN memory' /\ memory'[addr] = operandKAtExecute(x)

writtenAtExecEnd ==
  \A k \in Insts :
    opTypeOf(instructions[k]) \in {"STORE", "BRANCH"} =>
      instructions[k].writeCycle = instructions[k].execEndCycle

-----------------------------------------------------------------------------
(* The broadcast reaches every waiter *)

\* slot sl of station y after the step holds the value v and no tag
filledByStep(y, sl, v) ==
  /\ slotValue(reservationStations'[y], sl) = Some(v)
  /\ slotTag(reservationStations'[y], sl) = Null

\* the registers and the producer station after a broadcast of (T, v), and no
\* busy station left waiting on T
broadcastSettled ==
  LET T == cdb'[1].tag
      v == cdb'[1].value
      p == stationNamed(reservationStations, T)
  IN  /\ \A n \in DOMAIN registers :
           registers[n].qi = Some(T) =>
             /\ registers'[n].value = v
             /\ \/ registers'[n].qi = Null
                \/ \E k \in 1..Len(instructions') :
                     /\ issuedByStep(k)
                     /\ instructions'[k].dest = n
                     /\ stationOf(reservationStations', instructions'[k].id) # 0
                     /\ registers'[n].qi =
                          Some(reservationStations'[stationOf(reservationStations',
                                                              instructions'[k].id)].id)
      /\ \A y \in Stations : \A sl \in {"j", "k"} :
           reservationStations'[y].busy => slotTag(reservationStations'[y], sl) # Some(T)
      /\ p # 0
      /\ releasedByStep(p) \/ retakenByStep(p)

\* C31, as stated: in the state returned by a step that broadcast (T, v), every
\* station that was busy with qj = T (or qk = T) before the step has vj = v
\* (vk = v) and that tag cleared; every register that had tag T holds v, with
\* no tag unless the instruction issued in the step renamed it; no busy station
\* holds operand tag T; the producer station is idle with all fields reset or
\* newly occupied by the instruction issued in the step.
C31_BroadcastReachesEveryWaiter ==
  [][cycle' # cycle /\ cdb' # Null =>
       /\ \A y \in Stations : \A sl \in {"j", "k"} :
            reservationStations[y].busy
              /\ slotTag(reservationStations[y], sl) = Some(cdb'[1].tag)
            => filledByStep(y, sl, cdb'[1].value)
       /\ broadcastSettled]_vars

\* C31, amended: ... every station that was busy with qj = T (or qk = T) before
\* the step and holds the same instruction after it has vj = v (vk = v) and
\* that tag cleared; one that does not is a store or a branch that executed
\* with the value and retired in the step.
C31_BroadcastReachesEveryWaitingOperand ==
  [][cycle' # cycle /\ cdb' # Null =>
       /\ \A y \in Stations : \A sl \in {"j", "k"} :
            reservationStations[y].busy
              /\ slotTag(reservationStations[y], sl) = Some(cdb'[1].tag)
            => IF sameBinding(y)
               THEN filledByStep(y, sl, cdb'[1].value)
               ELSE /\ boundInst(reservationStations[y]) \in retiringInStep
                    /\ releasedByStep(y) \/ retakenByStep(y)
       /\ broadcastSettled]_vars

\* C31 witness: the step that returned this state broadcast a result that a
\* register took and for which an instruction had been waiting: it started
\* executing in this cycle, later than the cycle after its issue
C31_Witness ==
  /\ cdb # Null
  /\ \E n \in DOMAIN registers : registers[n].value = cdb[1].value /\ registers[n].qi = Null
  /\ \E k, k2 \in Insts :
       /\ usesCDB(instructions[k]) /\ instructions[k].writeCycle = Some(cycle)
       /\ instructions[k].dest \in {instructions[k2].src1, instructions[k2].src2}
       /\ IsSet(instructions[k2].issueCycle)
       /\ instructions[k].issueCycle[1] < instructions[k2].issueCycle[1]
       /\ instructions[k2].issueCycle[1] + 1 < cycle
       /\ instructions[k2].execStartCycle = Some(cycle)
       /\ stationOf(reservationStations, instructions[k2].id) # 0

-----------------------------------------------------------------------------
(* Branch resolution *)

\* the state of the step after its write and execute phases, before issue
afterExecute(s, cfg, lbls) ==
  execute(writeResult([s EXCEPT !.cycle = @ + 1, !.cdb = Null]), cfg, lbls)

\* the first operand of station x as the execute phase of the step finds it
operandJAtExecute(x) ==
  IF reservationStations[x].vj # Null THEN reservationStations[x].vj[1]
  ELSE cdb'[1].value

\* slot sl of the station the step issued instruction k into holds register reg
\* as the issue phase finds it: its tag, or its value when it has none
slotReadsRegister(k, sl, reg) ==
  LET r == reservationStations'[stationOf(reservationStations', instructions'[k].id)]
  IN  IF registers'[reg].qi # Null
      THEN slotTag(r, sl) = registers'[reg].qi /\ slotValue(r, sl) = Null
      ELSE slotTag(r, sl) = Null /\ slotValue(r, sl) = Some(registers'[reg].value)

\* the branches whose execution ends in the step
resolvingBranches ==
  {k \in endingExecutions : opTypeOf(instructions[k]) = "BRANCH"}

\* the step issued an instruction (a branch)
issuesInStep == \E k \in 1..Len(instructions') : issuedByStep(k)

issuesBranchInStep ==
  \E k \in 1..Len(instructions') : issuedByStep(k) /\ opTypeOf(instructions'[k]) = "BRANCH"

\* C32: a branch is issued with the first register of the instruction in its
\* first slot and the second in its second; while it is unresolved the PC stays
\* at its address + 4; the step that sets its execEndCycle leaves its execute
\* phase with the PC at the address of the target label when the branch is
\* BNE-class with vj # vk or BEQ-class with vj = vk and the label is in the
\* label map, at the branch's address + 4 otherwise, and with the branch-stall
\* flag cleared; the state the step returns differs only by the issue phase
\* that follows: the PC 4 further when an instruction was issued, the flag set
\* again when that instruction is a branch.
C32_BranchResolution ==
  /\ [](\A k \in Insts :
          unresolvedBranch(instructions[k]) => pc = instructions[k].pcAddress + 4)
  /\ [][/\ \A k \in 1..Len(instructions') :
             issuedByStep(k) /\ opTypeOf(instructions'[k]) = "BRANCH" =>
               /\ slotReadsRegister(k, "j", instructions'[k].dest)
               /\ slotReadsRegister(k, "k", instructions'[k].src1)
        /\ \A k \in resolvingBranches :
             LET x == stationOf(reservationStations, instructions[k].id)
                 B == instructions[k]
                 taken == \/ isBNE(B.op) /\ operandJAtExecute(x) # operandKAtExecute(x)
                          \/ isBEQ(B.op) /\ operandJAtExecute(x) = operandKAtExecute(x)
                 target == IF taken /\ B.src2 \in DOMAIN labels
                           THEN labels[B.src2] ELSE B.pcAddress + 4
                 mid == afterExecute(state, config, labels)
             IN  /\ mid.pc = target
                 /\ ~mid.branchStall
                 /\ pc' = target + (IF issuesInStep THEN 4 ELSE 0)
                 /\ branchStall' = issuesBranchInStep]_vars

\* C32 witness: a BNE whose operands differ has been resolved as taken in this
\* step, its first operand a value it waited for, and the PC is at the label's
\* address or one instruction past it
C32_Witness ==
  \E k \in Insts :
    /\ isBNE(instructions[k].op)
    /\ instructions[k].execEndCycle = Some(cycle)
    /\ instructions[k].issueCycle[1] + 1 < cycle
    /\ registers[instructions[k].dest].value # registers[instructions[k].src1].value
    /\ instructions[k].src2 \in DOMAIN labels
    /\ pc \in {labels[instructions[k].src2], labels[instructions[k].src2] + 4}
    /\ pc # instructions[k].pcAddress + 4
    /\ log[Len(log)].kind = "branchTaken" \/ log[Len(log) - 1].kind = "branchTaken"

-----------------------------------------------------------------------------
(* Effective addresses *)

\* the loads and stores the step issues
memoryOpsIssuedInStep ==
  {k \in 1..Len(instructions') :
     issuedByStep(k) /\ opTypeOf(instructions'[k]) \in {"LOAD", "STORE"}}

\* C33: a LOAD or STORE whose base register carries the tag of a producer is
\* issued only by a step in which that producer broadcasts (the producer's
\* writeCycle is the cycle of the step), and its address is then the broadcast
\* value plus the offset; when the base register carries no tag the address is
\* the register's value plus the offset; and the address of a station does not
\* change while the station holds the same instruction.
C33_EffectiveAddress ==
  [][/\ \A k \in memoryOpsIssuedInStep :
          LET base == instructions'[k].src1
              offset == Num(instructions'[k].immediate)
              r == reservationStations'[stationOf(reservationStations', instructions'[k].id)]
          IN  base \in DOMAIN registers =>
                IF registers[base].qi # Null
                THEN LET P == stationNamed(reservationStations, registers[base].qi[1])
                     IN  /\ cdb' # Null
                         /\ Some(cdb'[1].tag) = registers[base].qi
                         /\ P # 0
                         /\ reservationStations[P].busy
                         /\ instructions'[boundInst(reservationStations[P])].writeCycle
                              = Some(cycle')
                         /\ r.a = Some(Plus(cdb'[1].value, offset))
                ELSE r.a = Some(Plus(registers[base].value, offset))
     /\ \A x \in Stations :
          sameBinding(x) => reservationStations'[x].a = reservationStations[x].a]_vars

\* C33 witness: a load or store was issued in the cycle the producer of its base
\* register broadcast, with the new value of the register plus the offset as
\* its address
C33_Witness ==
  \E k \in Insts, p \in Insts :
    /\ opTypeOf(instructions[k]) \in {"LOAD", "STORE"}
    /\ instructions[k].issueCycle = Some(cycle)
    /\ instructions[p].writeCycle = Some(cycle)
    /\ instructions[p].id < instructions[k].id
    /\ instructions[p].dest = instructions[k].src1
    /\ usesCDB(instructions[p])
    /\ cdb # Null
    /\ cdb[1].value # Zero
    /\ instructions[p].issueCycle[1] + 1 < cycle
    /\ stationOf(reservationStations, instructions[k].id) # 0
    /\ reservationStations[stationOf(reservationStations, instructions[k].id)].a
         = Some(Plus(cdb[1].value, Num(instructions[k].immediate)))

-----------------------------------------------------------------------------
(* Equivalence with in-order execution *)

\* the sequential interpreter: its state is the register values and the memory
sequentialRead(vals, name) == IF name \in DOMAIN vals THEN vals[name] ELSE Zero

sequentialWrite(vals, name, v) ==
  IF name \in DOMAIN vals THEN [vals EXCEPT ![name] = v] ELSE vals

\* one instruction executed on its own: operands read from the registers, the
\* result written to the destination register or to memory
sequentialStep(st, inst) ==
  LET opType == getOpType(inst.op)
      addr == Plus(sequentialRead(st.vals, inst.src1), Num(inst.immediate))
      v1 == sequentialRead(st.vals, inst.src1)
      v2 == IF inst.src2 \in DOMAIN st.vals THEN st.vals[inst.src2]
            ELSE Num(inst.immediate)
  IN  CASE opType = "BRANCH" -> st
        [] opType = "STORE" ->
             [st EXCEPT !.mem = memoryWrite(@, addr, sequentialRead(st.vals, inst.dest))]
        [] opType = "LOAD" ->
             [st EXCEPT !.vals = sequentialWrite(@, inst.dest, memoryRead(st.mem, addr))]
        [] OTHER ->
             [st EXCEPT !.vals = sequentialWrite(@, inst.dest,
                                   computeResult(opType, inst.op, v1, v2, st.mem, addr))]

\* the dynamic instructions in the order of their issue, executed from cycle c on
RECURSIVE sequentialRun(_, _)
sequentialRun(c, st) ==
  IF c > cycle THEN st
  ELSE LET at == {k \in Insts : instructions[k].issueCycle = Some(c)}
       IN  IF at = {} THEN sequentialRun(c + 1, st)
           ELSE sequentialRun(c + 1, sequentialStep(st, instructions[CHOOSE k \in at : TRUE]))

sequentialResult ==
  sequentialRun(1, [vals |-> initialRegisters, mem |-> <<>>])

everyInstructionIssued == \A k \in Insts : IsSet(instructions[k].issueCycle)

\* C34: in every finished state in which every dynamic instruction was issued,
\* the register values and the memory are those the sequential interpreter
\* produces when it executes the dynamic instructions one at a time in the order
\* of their issue, from the initial register values and the empty memory.
C34_SequentialEquivalence ==
  isFinished /\ everyInstructionIssued =>
    LET final == sequentialResult
    IN  /\ \A name \in DOMAIN registers : registers[name].value = final.vals[name]
        /\ memory = final.mem

\* C34 witness: a finished run in which a register was written twice, a store
\* wrote memory and a later load read the stored address
C34_Witness ==
  /\ isFinished /\ everyInstructionIssued
  /\ \E k1, k2 \in Insts :
       /\ k1 # k2
       /\ usesCDB(instructions[k1]) /\ usesCDB(instructions[k2])
       /\ instructions[k1].dest = instructions[k2].dest
  /\ \E k1, k2 \in Insts :
       /\ opTypeOf(instructions[k1]) = "STORE" /\ opTypeOf(instructions[k2]) = "LOAD"
       /\ instructions[k1].issueCycle[1] < instructions[k2].issueCycle[1]
       /\ instructions[k1].src1 = instructions[k2].src1
       /\ instructions[k1].immediate = instructions[k2].immediate
  /\ memory # <<>>

-----------------------------------------------------------------------------
(* Identity order and issue order *)

issuedInstructions == {k \in Insts : IsSet(instructions[k].issueCycle)}

\* C35: a step issues at most one instruction, and of any two issued dynamic
\* instructions the one with the smaller identity has the strictly smaller
\* issueCycle.
C35_IdentityOrderIsIssueOrder ==
  /\ [](\A k1, k2 \in issuedInstructions :
          instructions[k1].id < instructions[k2].id =>
            instructions[k1].issueCycle[1] < instructions[k2].issueCycle[1])
  /\ [][Cardinality({k \in 1..Len(instructions') : issuedByStep(k)}) <= 1]_vars

\* C35 witness: an instruction skipped by a taken forward branch has been issued
\* after an instruction of larger identity
C35_Witness ==
  \E k1, k2 \in issuedInstructions :
    /\ instructions[k1].id < instructions[k2].id
    /\ instructions[k1].pcAddress < instructions[k2].pcAddress
    /\ instructions[k2].issueCycle[1] < instructions[k1].issueCycle[1]
    /\ takenBranches # {}

-----------------------------------------------------------------------------
(* Operand tags *)

\* the station that the tag in slot sl of station x names, 0 when there is none
namedBy(x, sl) == stationNamed(reservationStations, slotTag(reservationStations[x], sl)[1])

issueCycleOf(x) == instructions[boundInst(reservationStations[x])].issueCycle[1]

\* C36: every operand tag held by a busy station X names a busy station other
\* than X whose instruction was issued before the instruction of X; the tags
\* therefore never form a cycle of stations waiting for each other.
C36_TagsNameEarlierProducers ==
  \A x \in Stations : \A sl \in {"j", "k"} :
    reservationStations[x].busy /\ slotTag(reservationStations[x], sl) # Null =>
      LET P == namedBy(x, sl)
      IN  /\ P # 0
          /\ P # x
          /\ reservationStations[P].busy
          /\ boundInst(reservationStations[P]) # 0
          /\ boundInst(reservationStations[x]) # 0
          /\ issueCycleOf(P) < issueCycleOf(x)

\* C36 witness: a chain of two tags: a station waits for a station that itself
\* waits for a third
C36_Witness ==
  \E x \in Stations : \E sl, sl2 \in {"j", "k"} :
    /\ reservationStations[x].busy
    /\ slotTag(reservationStations[x], sl) # Null
    /\ reservationStations[namedBy(x, sl)].busy
    /\ slotTag(reservationStations[namedBy(x, sl)], sl2) # Null
    /\ namedBy(namedBy(x, sl), sl2) \notin {0, x, namedBy(x, sl)}

-----------------------------------------------------------------------------
(* The branch-stall flag *)

\* the busy stations bound to a branch
branchStations ==
  {x \in Stations :
     /\ reservationStations[x].busy
     /\ boundInst(reservationStations[x]) # 0
     /\ opTypeOf(instructions[boundInst(reservationStations[x])]) = "BRANCH"}

\* C37: the branch-stall flag is true exactly when one busy station is bound to a
\* BRANCH, and there are never two such stations.
C37_StallFlagMeansBranchInFlight ==
  /\ Cardinality(branchStations) <= 1
  /\ branchStall <=> Cardinality(branchStations) = 1

\* C37 witness: a branch was resolved and its station freed in this cycle, and
\* the branch issued in the same cycle holds the flag
C37_Witness ==
  /\ branchStall
  /\ \E k \in Insts :
       /\ opTypeOf(instructions[k]) = "BRANCH"
       /\ instructions[k].writeCycle = Some(cycle)
       /\ stationOf(reservationStations, instructions[k].id) = 0
  /\ \E x \in branchStations : issueCycleOf(x) = cycle

-----------------------------------------------------------------------------
(* Stalled issue *)

\* the target addresses of the branches the step logs as taken
takenTargetsInStep ==
  {labels[log'[e].label] :
     e \in {e \in (Len(log) + 1)..Len(log') : log'[e].kind = "branchTaken"}}

\* the instruction the PC points at has not been issued
awaitsIssue ==
  \E k \in Insts : instructions[k].pcAddress = pc /\ ~IsSet(instructions[k].issueCycle)

\* C38: a step from a state that is not finished increases the cycle by exactly
\* 1; the PC changes only to the label address of a branch the step resolves as
\* taken and by +4 for the instruction the step issues; no step issues while a
\* branch stays unresolved; and a step that issues nothing occupies no station,
\* sets no register tag and moves the PC only by a taken branch.
C38_StalledIssueChangesNothing ==
  [][/\ ~isFinished => cycle' = cycle + 1
     /\ Cardinality(takenTargetsInStep) <= 1
     /\ pc' = (IF takenTargetsInStep = {} THEN pc ELSE CHOOSE a \in takenTargetsInStep : TRUE)
                + (IF issuesInStep THEN 4 ELSE 0)
     /\ branchStall /\ resolvingBranches = {} => ~issuesInStep
     /\ ~issuesInStep =>
          /\ \A x \in Stations : reservationStations'[x].busy => sameBinding(x)
          /\ \A name \in DOMAIN registers :
               registers'[name].qi \in {registers[name].qi, Null}
          /\ \A k \in Insts : instructions'[k].issueCycle = instructions[k].issueCycle]_vars

\* C38 witness: the second cycle in a row without an issue although no branch
\* is unresolved and the instruction at the PC awaits issue
C38_Witness ==
  /\ ~isFinished /\ ~branchStall /\ awaitsIssue
  /\ cycle >= 3
  /\ \A k \in Insts :
       IsSet(instructions[k].issueCycle) => instructions[k].issueCycle[1] < cycle - 1
  /\ \E x \in Stations : reservationStations[x].busy
  /\ \E name \in DOMAIN registers : registers[name].qi # Null

-----------------------------------------------------------------------------
(* Finished states *)

allTimestampsSet(i) ==
  /\ IsSet(i.issueCycle) /\ IsSet(i.execStartCycle)
  /\ IsSet(i.execEndCycle) /\ IsSet(i.writeCycle)

\* C39: in every finished state every station is idle, no register carries a
\* tag, the branch-stall flag is false and every dynamic instruction has its
\* four timestamps set.
C39_FinishedStateIsQuiescent ==
  isFinished =>
    /\ allIdle
    /\ \A name \in DOMAIN registers : registers[name].qi = Null
    /\ ~branchStall
    /\ \A k \in Insts : allTimestampsSet(instructions[k])

\* C39 witness: a finished run with a clone, a store, a branch and a register
\* writer among its dynamic instructions
C39_Witness ==
  /\ isFinished
  /\ \E k1, k2 \in Insts : k1 # k2 /\ instructions[k1].pcAddress = instructions[k2].pcAddress
  /\ \E k \in Insts : opTypeOf(instructions[k]) = "STORE"
  /\ \E k \in Insts : opTypeOf(instructions[k]) = "BRANCH"
  /\ \E k \in Insts : usesCDB(instructions[k]) /\ instructions[k].writeCycle = Some(cycle)

-----------------------------------------------------------------------------
(* Phase order within a step *)

\* station x waits for operands before the step, and every tag it waits for is
\* the tag the step broadcasts
lastTagsClearedByStep(x) ==
  /\ reservationStations[x].busy
  /\ cdb' # Null
  /\ \E sl \in {"j", "k"} : slotTag(reservationStations[x], sl) # Null
  /\ \A sl \in {"j", "k"} :
       slotTag(reservationStations[x], sl) \in {Null, Some(cdb'[1].tag)}

\* C40: an instruction starts execution in a later cycle than that of its issue;
\* an instruction that writes on the CDB does so in a later cycle than that in
\* which its execution ends; and an instruction whose last operand tags are
\* cleared by the broadcast of a step starts execution in that same step.
C40_PhaseOrder ==
  /\ [](\A k \in Insts :
          /\ IsSet(instructions[k].execStartCycle) =>
               instructions[k].issueCycle[1] < instructions[k].execStartCycle[1]
          /\ usesCDB(instructions[k]) /\ IsSet(instructions[k].writeCycle) =>
               instructions[k].execEndCycle[1] < instructions[k].writeCycle[1])
  /\ [][\A x \in Stations :
          lastTagsClearedByStep(x) /\ boundInst(reservationStations[x]) # 0 =>
            instructions'[boundInst(reservationStations[x])].execStartCycle = Some(cycle')]_vars

\* C40 witness: the station that broadcast in this cycle is occupied by the
\* instruction issued in this cycle, and a consumer that waited for the
\* broadcast value started execution in this cycle
C40_Witness ==
  /\ cdb # Null
  /\ \E x \in Stations :
       /\ reservationStations[x].id = cdb[1].tag
       /\ reservationStations[x].busy
       /\ issueCycleOf(x) = cycle
  /\ \E k \in Insts :
       /\ instructions[k].execStartCycle = Some(cycle)
       /\ instructions[k].issueCycle[1] + 1 < cycle
       /\ \E e \in producers : e.c = instructions[k].id /\ e.tag = cdb[1].tag

=============================================================================
